---- MODULE Spec2Model ----
(***************************************************************************)
(* Streaming action pipeline of main-orbit: the sequential ActionRunner    *)
(* (lib/runtime/action-runner.ts), the RecoveryManager / ErrorDetector /   *)
(* AutoFix used by its boot sequence, and the StreamingActionParser.       *)
(*                                                                         *)
(* JavaScript strings are sequences of one-character strings; the tokens   *)
(* "U+0130", "U+0307", "U+0060" and "U+274C" stand for those code points.  *)
(***************************************************************************)
EXTENDS Integers, Sequences, FiniteSets, TLC

(***************************************************************************)
(* String primitives (ECMAScript String.prototype), 0-based as in the code *)
(***************************************************************************)
MinOf(S) == CHOOSE x \in S : \A y \in S : x <= y

MaxOf(S) == CHOOSE x \in S : \A y \in S : x >= y

Clamp(i, n) == IF i < 0 THEN 0 ELSE IF i > n THEN n ELSE i

\* s.slice(a, b)
Slice(s, a, b) ==
    LET lo == Clamp(a, Len(s))
        hi == Clamp(b, Len(s))
    IN  IF hi <= lo THEN <<>> ELSE SubSeq(s, lo + 1, hi)

\* s.slice(a)
SliceFrom(s, a) == Slice(s, a, Len(s))

MatchAt(s, sub, i) ==
    /\ i >= 0
    /\ i + Len(sub) <= Len(s)
    /\ \A j \in 1..Len(sub) : s[i + j] = sub[j]

\* s.indexOf(sub, from)
IndexOf(s, sub, from) ==
    LET hits == {i \in Clamp(from, Len(s))..(Len(s) - Len(sub)) : MatchAt(s, sub, i)}
    IN  IF hits = {} THEN -1 ELSE MinOf(hits)

\* s.lastIndexOf(sub, from)
LastIndexOf(s, sub, from) ==
    LET hits == {i \in 0..Clamp(from, Len(s)) : MatchAt(s, sub, i)}
    IN  IF hits = {} THEN -1 ELSE MaxOf(hits)

\* s.includes(sub)
Includes(s, sub) == IndexOf(s, sub, 0) # -1

\* s.startsWith(p)
StartsWith(s, p) == MatchAt(s, p, 0)

\* s.endsWith(p)
EndsWith(s, p) == MatchAt(s, p, Len(s) - Len(p))

UpperLetters == <<"A", "B", "C", "D", "E", "F", "G", "H", "I", "J", "K", "L", "M", "N", "O", "P", "Q", "R", "S", "T", "U", "V", "W", "X", "Y", "Z">>

LowerLetters == <<"a", "b", "c", "d", "e", "f", "g", "h", "i", "j", "k", "l", "m", "n", "o", "p", "q", "r", "s", "t", "u", "v", "w", "x", "y", "z">>

UpperToLower ==
    [c \in {UpperLetters[i] : i \in 1..Len(UpperLetters)} |->
        LowerLetters[CHOOSE i \in 1..Len(UpperLetters) : UpperLetters[i] = c]]

\* toLowerCase of one code unit: U+0130 lowers to the two units U+0069 U+0307
LowerChar(c) ==
    IF c \in DOMAIN UpperToLower THEN <<UpperToLower[c]>>
    ELSE IF c = "U+0130" THEN <<"i", "U+0307">> ELSE <<c>>

RECURSIVE ToLowerCase(_)
\* s.toLowerCase(): every code unit lowered, the halves of s one after the other
ToLowerCase(s) ==
    IF s = <<>> THEN <<>>
    ELSE IF Len(s) = 1 THEN LowerChar(s[1])
    ELSE ToLowerCase(SubSeq(s, 1, Len(s) \div 2))
             \o ToLowerCase(SubSeq(s, Len(s) \div 2 + 1, Len(s)))

WhiteSpace == {" ", "\n", "\t", "\r"}

RECURSIVE TrimStart(_)
TrimStart(s) == IF s # <<>> /\ Head(s) \in WhiteSpace THEN TrimStart(Tail(s)) ELSE s

RECURSIVE TrimEnd(_)
TrimEnd(s) ==
    IF s # <<>> /\ s[Len(s)] \in WhiteSpace THEN TrimEnd(SubSeq(s, 1, Len(s) - 1)) ELSE s

\* s.trim()
Trim(s) == TrimEnd(TrimStart(s))

RECURSIVE SplitOn(_, _, _)
\* the pieces of s between separators; run merges adjacent separators (/\s+/)
SplitOn(s, seps, run) ==
    LET cut == {i \in 1..Len(s) : s[i] \in seps}
    IN  IF cut = {} THEN <<s>>
        ELSE LET i == MinOf(cut)
                 rest == SubSeq(s, i + 1, Len(s))
             IN  <<SubSeq(s, 1, i - 1)>> \o SplitOn(IF run THEN TrimStart(rest) ELSE rest, seps, run)

RECURSIVE Join(_, _)
\* parts.join(sep)
Join(parts, sep) ==
    IF parts = <<>> THEN <<>>
    ELSE IF Len(parts) = 1 THEN parts[1]
    ELSE parts[1] \o sep \o Join(Tail(parts), sep)

(***************************************************************************)
(* Literals of action-runner.ts                                            *)
(***************************************************************************)
NpmInstall == <<"n", "p", "m", " ", "i", "n", "s", "t", "a", "l", "l">>

NpmRunDev == <<"n", "p", "m", " ", "r", "u", "n", " ", "d", "e", "v">>

NpmStart == <<"n", "p", "m", " ", "s", "t", "a", "r", "t">>

WritingPrefix == <<"W", "r", "i", "t", "i", "n", "g", ":", " ">>

RunningPrefix == <<"R", "u", "n", "n", "i", "n", "g", ":", " ">>

Unknown == <<"u", "n", "k", "n", "o", "w", "n">>

SrcSrc == <<"s", "r", "c", "/", "s", "r", "c", "/">>

PublicPublic == <<"p", "u", "b", "l", "i", "c", "/", "p", "u", "b", "l", "i", "c", "/">>

AppTsx == <<"s", "r", "c", "/", "A", "p", "p", ".", "t", "s", "x">>

CriticalAbortMessage == <<"P", "r", "e", "v", "i", "o", "u", "s", " ", "c", "r", "i", "t", "i", "c", "a", "l", " ", "a", "c", "t", "i", "o", "n", " ", "f", "a", "i", "l", "e", "d">>

OperationAborted == <<"O", "p", "e", "r", "a", "t", "i", "o", "n", " ", "a", "b", "o", "r", "t", "e", "d">>

DependencyFailed == <<"D", "e", "p", "e", "n", "d", "e", "n", "c", "y", " ", "i", "n", "s", "t", "a", "l", "l", "a", "t", "i", "o", "n", " ", "f", "a", "i", "l", "e", "d", ":", " ">>

(***************************************************************************)
(* Literals of RecoveryManager.ts (ErrorDetector) and AutoFix.ts           *)
(***************************************************************************)
PostcssConfig == <<"p", "o", "s", "t", "c", "s", "s", ".", "c", "o", "n", "f", "i", "g", ".", "j", "s">>

ModuleExports == <<"m", "o", "d", "u", "l", "e", ".", "e", "x", "p", "o", "r", "t", "s">>

InstallFailedWithCode == <<"n", "p", "m", " ", "i", "n", "s", "t", "a", "l", "l", " ", "f", "a", "i", "l", "e", "d", " ", "w", "i", "t", "h", " ", "c", "o", "d", "e", " ">>

Extensions == <<<<"t", "s", "x">>, <<"t", "s">>, <<"j", "s", "x">>, <<"j", "s">>, <<"c", "s", "s">>>>

Letters == {UpperLetters[i] : i \in 1..Len(UpperLetters)} \cup {LowerLetters[i] : i \in 1..Len(LowerLetters)}

\* the class [a-zA-Z0-9.\-_/] of extractFilePath
PathChars == Letters \cup {"0", "1", "2", "3", "4", "5", "6", "7", "8", "9"} \cup {".", "-", "_", "/"}

NoFile == <<>>

(***************************************************************************)
(* ErrorDetector                                                           *)
(***************************************************************************)
\* end of a match of [a-zA-Z]:[\\/][^:]+ at 0-based i, or -1
DrivePathEnd(s, i) ==
    IF /\ i + 4 <= Len(s)
       /\ s[i + 1] \in Letters
       /\ s[i + 2] = ":"
       /\ s[i + 3] \in {"\\", "/"}
       /\ s[i + 4] # ":"
    THEN LET colon == IndexOf(s, <<":">>, i + 3)
         IN  IF colon = -1 THEN Len(s) ELSE colon
    ELSE -1

\* end of a match of [a-zA-Z0-9.\-_/]+\.(tsx|ts|jsx|js|css) at 0-based i, or -1
RelPathEnd(s, i) ==
    LET stops == {j \in i..(Len(s) - 1) : s[j + 1] \notin PathChars}
        runEnd == IF stops = {} THEN Len(s) ELSE MinOf(stops)
        dots == {j \in (i + 1)..(runEnd - 1) :
                    s[j + 1] = "." /\ \E e \in 1..Len(Extensions) : MatchAt(s, Extensions[e], j + 1)}
    IN  IF dots = {} THEN -1
        ELSE LET j == MaxOf(dots)
                 e == MinOf({x \in 1..Len(Extensions) : MatchAt(s, Extensions[x], j + 1)})
             IN  j + 1 + Len(Extensions[e])

\* extractFilePath: the leftmost match, the first alternative tried first
ExtractFilePath(s) ==
    LET starts == {i \in 0..(Len(s) - 1) : DrivePathEnd(s, i) # -1 \/ RelPathEnd(s, i) # -1}
    IN  IF starts = {} THEN NoFile
        ELSE LET i == MinOf(starts)
             IN  Slice(s, i, IF DrivePathEnd(s, i) # -1 THEN DrivePathEnd(s, i) ELSE RelPathEnd(s, i))

\* detectErrorType: the first matching category, in the order of the code
DetectErrorType(error) ==
    LET errorLower == ToLowerCase(error)
    IN  IF \/ Includes(error, <<"E", "x", "p", "e", "c", "t", "i", "n", "g", " ", "U", "n", "i", "c", "o", "d", "e", " ", "e", "s", "c", "a", "p", "e", " ", "s", "e", "q", "u", "e", "n", "c", "e">>)
           \/ Includes(error, <<"U", "n", "e", "x", "p", "e", "c", "t", "e", "d", " ", "c", "h", "a", "r", "a", "c", "t", "e", "r">>)
           \/ Includes(error, <<"I", "n", "v", "a", "l", "i", "d", " ", "e", "s", "c", "a", "p", "e", " ", "s", "e", "q", "u", "e", "n", "c", "e">>)
        THEN [type |-> "template-literal-escape-error", file |-> ExtractFilePath(error)]
        ELSE IF \/ Includes(errorLower, <<"n", "p", "m", " ", "e", "r", "r", "!", " ", "c", "o", "d", "e", " ", "e", "r", "e", "s", "o", "l", "v", "e">>)
                \/ Includes(errorLower, <<"r", "e", "s", "o", "l", "v", "i", "n", "g", " ", "d", "e", "p", "e", "n", "d", "e", "n", "c", "i", "e", "s">>)
                \/ Includes(errorLower, <<"c", "o", "n", "f", "l", "i", "c", "t">>)
        THEN [type |-> "npm-version-conflict", file |-> NoFile]
        ELSE IF Includes(errorLower, <<"p", "e", "e", "r", " ", "d", "e", "p", "e", "n", "d", "e", "n", "c", "y">>) \/ Includes(errorLower, <<"i", "s", " ", "n", "o", "t", " ", "c", "o", "m", "p", "a", "t", "i", "b", "l", "e", " ", "w", "i", "t", "h">>)
        THEN [type |-> "peer-dependency-error", file |-> NoFile]
        ELSE IF Includes(error, <<"S", "y", "n", "t", "a", "x", "E", "r", "r", "o", "r">>) \/ Includes(errorLower, <<"u", "n", "e", "x", "p", "e", "c", "t", "e", "d", " ", "t", "o", "k", "e", "n">>)
        THEN [type |-> "syntax-error", file |-> ExtractFilePath(error)]
        ELSE IF Includes(errorLower, <<"c", "o", "m", "m", "a", "n", "d", " ", "n", "o", "t", " ", "f", "o", "u", "n", "d">>) \/ Includes(errorLower, <<"n", "o", "t", " ", "r", "e", "c", "o", "g", "n", "i", "z", "e", "d", " ", "a", "s", " ", "a", "n", " ", "i", "n", "t", "e", "r", "n", "a", "l">>)
        THEN [type |-> "missing-dependency", file |-> NoFile]
        ELSE IF Includes(error, <<"R", "e", "f", "e", "r", "e", "n", "c", "e", "E", "r", "r", "o", "r", ":", " ", "m", "o", "d", "u", "l", "e", " ", "i", "s", " ", "n", "o", "t", " ", "d", "e", "f", "i", "n", "e", "d">>) \/ Includes(error, <<"m", "o", "d", "u", "l", "e", " ", "i", "s", " ", "n", "o", "t", " ", "d", "e", "f", "i", "n", "e", "d", " ", "i", "n", " ", "E", "S", " ", "m", "o", "d", "u", "l", "e", " ", "s", "c", "o", "p", "e">>)
        THEN [type |-> "esm-cjs-conflict",
              file |-> IF ExtractFilePath(error) # NoFile THEN ExtractFilePath(error) ELSE PostcssConfig]
        ELSE [type |-> "unknown", file |-> NoFile]

\* the test detectErrorType makes for a type: whether error has one of its keywords
Matches(error, type) ==
    LET errorLower == ToLowerCase(error)
    IN  CASE type = "template-literal-escape-error" ->
                 \/ Includes(error, <<"E", "x", "p", "e", "c", "t", "i", "n", "g", " ", "U", "n", "i", "c", "o", "d", "e", " ", "e", "s", "c", "a", "p", "e", " ", "s", "e", "q", "u", "e", "n", "c", "e">>)
                 \/ Includes(error, <<"U", "n", "e", "x", "p", "e", "c", "t", "e", "d", " ", "c", "h", "a", "r", "a", "c", "t", "e", "r">>)
                 \/ Includes(error, <<"I", "n", "v", "a", "l", "i", "d", " ", "e", "s", "c", "a", "p", "e", " ", "s", "e", "q", "u", "e", "n", "c", "e">>)
          [] type = "npm-version-conflict" ->
                 \/ Includes(errorLower, <<"n", "p", "m", " ", "e", "r", "r", "!", " ", "c", "o", "d", "e", " ", "e", "r", "e", "s", "o", "l", "v", "e">>)
                 \/ Includes(errorLower, <<"r", "e", "s", "o", "l", "v", "i", "n", "g", " ", "d", "e", "p", "e", "n", "d", "e", "n", "c", "i", "e", "s">>)
                 \/ Includes(errorLower, <<"c", "o", "n", "f", "l", "i", "c", "t">>)
          [] type = "peer-dependency-error" ->
                 \/ Includes(errorLower, <<"p", "e", "e", "r", " ", "d", "e", "p", "e", "n", "d", "e", "n", "c", "y">>)
                 \/ Includes(errorLower, <<"i", "s", " ", "n", "o", "t", " ", "c", "o", "m", "p", "a", "t", "i", "b", "l", "e", " ", "w", "i", "t", "h">>)
          [] type = "syntax-error" ->
                 \/ Includes(error, <<"S", "y", "n", "t", "a", "x", "E", "r", "r", "o", "r">>)
                 \/ Includes(errorLower, <<"u", "n", "e", "x", "p", "e", "c", "t", "e", "d", " ", "t", "o", "k", "e", "n">>)
          [] type = "missing-dependency" ->
                 \/ Includes(errorLower, <<"c", "o", "m", "m", "a", "n", "d", " ", "n", "o", "t", " ", "f", "o", "u", "n", "d">>)
                 \/ Includes(errorLower, <<"n", "o", "t", " ", "r", "e", "c", "o", "g", "n", "i", "z", "e", "d", " ", "a", "s", " ", "a", "n", " ", "i", "n", "t", "e", "r", "n", "a", "l">>)
          [] type = "esm-cjs-conflict" ->
                 \/ Includes(error, <<"R", "e", "f", "e", "r", "e", "n", "c", "e", "E", "r", "r", "o", "r", ":", " ", "m", "o", "d", "u", "l", "e", " ", "i", "s", " ", "n", "o", "t", " ", "d", "e", "f", "i", "n", "e", "d">>)
                 \/ Includes(error, <<"m", "o", "d", "u", "l", "e", " ", "i", "s", " ", "n", "o", "t", " ", "d", "e", "f", "i", "n", "e", "d", " ", "i", "n", " ", "E", "S", " ", "m", "o", "d", "u", "l", "e", " ", "s", "c", "o", "p", "e">>)
          [] OTHER -> FALSE

(***************************************************************************)
(* AutoFix                                                                 *)
(***************************************************************************)
NoSuggestion == [action |-> "none"]

\* files.find(f => f.path === filePath || f.path.endsWith(filePath)): its index, or 0
FindFile(files, filePath) ==
    LET hits == {i \in 1..Len(files) : files[i].path = filePath \/ EndsWith(files[i].path, filePath)}
    IN  IF hits = {} THEN 0 ELSE MinOf(hits)

Suggestion(type, action, file, pattern, requiresApproval, newCommand) ==
    [type |-> type, action |-> action, file |-> file, pattern |-> pattern,
     requiresApproval |-> requiresApproval, newCommand |-> newCommand]

SuggestTemplateLiteralNever(error, files) == NoSuggestion

SuggestTemplateLiteralFix(error, files) ==
    IF error.file = NoFile \/ FindFile(files, error.file) = 0 THEN NoSuggestion
    ELSE Suggestion("auto-fix", "fix-syntax", files[FindFile(files, error.file)].path,
                    "template-literal", FALSE, <<>>)

SuggestESMConversion(error, files) ==
    LET filePath == IF error.file # NoFile THEN error.file ELSE PostcssConfig
    IN  IF FindFile(files, filePath) = 0 THEN NoSuggestion
        ELSE Suggestion("auto-fix", "fix-syntax", files[FindFile(files, filePath)].path,
                        "module-exports", FALSE, <<>>)

SuggestFix(error, files) ==
    CASE error.type = "template-literal-escape-error" -> SuggestTemplateLiteralFix(error, files)
      [] error.type \in {"peer-dependency-error", "npm-version-conflict"} ->
            Suggestion("auto-fix", "retry-with-flags", NoFile, "none", FALSE, <<"n", "p", "m", " ", "i", "n", "s", "t", "a", "l", "l", " ", "-", "-", "l", "e", "g", "a", "c", "y", "-", "p", "e", "e", "r", "-", "d", "e", "p", "s">>)
      [] error.type = "syntax-error" ->
            Suggestion("manual-fix", "manual-intervention", error.file, "none", TRUE, <<>>)
      [] error.type = "esm-cjs-conflict" -> SuggestESMConversion(error, files)
      [] error.type = "missing-import" ->
            Suggestion("auto-fix", "modify-package-json", error.file, "none", TRUE, <<>>)
      [] error.type = "circular-dependency" ->
            Suggestion("manual-fix", "manual-intervention", error.file, "none", TRUE, <<>>)
      [] error.type = "css-syntax" ->
            Suggestion("auto-fix", "fix-syntax", IF error.file # NoFile THEN error.file ELSE <<"s", "r", "c", "/", "i", "n", "d", "e", "x", ".", "c", "s", "s">>,
                       "none", FALSE, <<>>)
      [] OTHER -> NoSuggestion

\* no suggestFix call made yet
NotSuggested == [error |-> [type |-> "unknown", file |-> NoFile], files |-> <<>>, result |-> NoSuggestion]

RECURSIVE ReplaceTemplateLiteral(_)
\* content.replace(/\\?(\$\{|U+0060)/g, '$1'), U+0060 the backtick
ReplaceTemplateLiteral(s) ==
    IF s = <<>> THEN <<>>
    ELSE IF Head(s) = "\\" /\ (StartsWith(Tail(s), <<"$", "{">>) \/ StartsWith(Tail(s), <<"U+0060">>))
    THEN ReplaceTemplateLiteral(Tail(s))
    ELSE <<Head(s)>> \o ReplaceTemplateLiteral(Tail(s))

RECURSIVE ReplaceModuleExports(_)
\* content.replace(/module\.exports\s*=\s*/g, 'export default ')
ReplaceModuleExports(s) ==
    IF s = <<>> THEN <<>>
    ELSE LET after == TrimStart(SliceFrom(s, Len(ModuleExports)))
         IN  IF StartsWith(s, ModuleExports) /\ after # <<>> /\ Head(after) = "="
             THEN <<"e", "x", "p", "o", "r", "t", " ", "d", "e", "f", "a", "u", "l", "t", " ">> \o ReplaceModuleExports(TrimStart(Tail(after)))
             ELSE <<Head(s)>> \o ReplaceModuleExports(Tail(s))

\* a substitution that changes nothing
ApplyPatternNever(pattern, content) == content

\* originalContent.replace(suggestion.pattern, suggestion.replacement)
ApplyPattern(pattern, content) ==
    IF pattern = "template-literal" THEN ReplaceTemplateLiteral(content)
    ELSE IF pattern = "module-exports" THEN ReplaceModuleExports(content)
    ELSE content

(***************************************************************************)
(* StreamingActionParser                                                   *)
(***************************************************************************)
ARTIFACT_TAG_OPEN == <<"<", "o", "r", "b", "i", "t", "a", "r", "t", "i", "f", "a", "c", "t">>

ARTIFACT_TAG_CLOSE == <<"<", "/", "o", "r", "b", "i", "t", "a", "r", "t", "i", "f", "a", "c", "t", ">">>

ACTION_TAG_OPEN == <<"<", "o", "r", "b", "i", "t", "a", "c", "t", "i", "o", "n">>

ACTION_TAG_CLOSE == <<"<", "/", "o", "r", "b", "i", "t", "a", "c", "t", "i", "o", "n", ">">>

\* the value undefined, where the code holds a string or undefined
Undefined == <<"undefined">>

FileType == <<"f", "i", "l", "e">>

\* x || y on string | undefined
OrElse(x, y) == IF x = Undefined \/ x = <<>> THEN y ELSE x

\* the pattern name=" matches tag at 0-based p, letters compared without case
AttributeAt(tag, name, p) ==
    LET pat == name \o <<"=", "\"">>
    IN  /\ p + Len(pat) <= Len(tag)
        /\ \A j \in 1..Len(pat) : LowerChar(tag[p + j]) = LowerChar(pat[j])
        /\ IndexOf(tag, <<"\"">>, p + Len(pat)) # -1

\* #extractAttribute: tag.match(new RegExp(name="([^"]*)", 'i')), the leftmost match
ExtractAttribute(tag, name) ==
    LET starts == {p \in 0..(Len(tag) - 1) : AttributeAt(tag, name, p)}
    IN  IF starts = {} THEN Undefined
        ELSE LET from == MinOf(starts) + Len(name) + 2
             IN  Slice(tag, from, IndexOf(tag, <<"\"">>, from))

\* #parseActionTag
ParseActionTag(input, openIndex, endIndex) ==
    LET tag == Slice(input, openIndex, endIndex + 1)
    IN  [type |-> OrElse(ExtractAttribute(tag, <<"t", "y", "p", "e">>), FileType),
         path |-> ExtractAttribute(tag, <<"p", "a", "t", "h">>),
         content |-> <<>>]

RECURSIVE UnescapeInterpolation(_)
\* content.replace(/\\?\$\{/g, '${')
UnescapeInterpolation(s) ==
    IF s = <<>> THEN <<>>
    ELSE IF Head(s) = "\\" /\ StartsWith(Tail(s), <<"$", "{">>)
    THEN <<"$", "{">> \o UnescapeInterpolation(SliceFrom(s, 3))
    ELSE <<Head(s)>> \o UnescapeInterpolation(Tail(s))

\* a close that leaves escaped backticks as they are
UnescapeBacktickNever(s) == s

RECURSIVE UnescapeBacktick(_)
\* content.replace(/\\U+0060/g, 'U+0060'), U+0060 the backtick
UnescapeBacktick(s) ==
    IF s = <<>> THEN <<>>
    ELSE IF Head(s) = "\\" /\ StartsWith(Tail(s), <<"U+0060">>)
    THEN <<"U+0060">> \o UnescapeBacktick(SliceFrom(s, 2))
    ELSE <<Head(s)>> \o UnescapeBacktick(Tail(s))

\* the argument of a callback: onArtifactOpen/Close carry id and title, the others an action;
\* raw is the body accumulated when the callback fires, before it is trimmed and unescaped
Notification(kind, artifact, action, actionId, raw) ==
    [kind |-> kind, artifactId |-> artifact.id, title |-> artifact.title,
     actionId |-> actionId, type |-> action.type, path |-> action.path,
     content |-> action.content, raw |-> raw]

NoAction == [type |-> Undefined, path |-> Undefined, content |-> <<>>]

NoArtifact == [id |-> Undefined, title |-> Undefined]

\* the ParserState parse creates for a stream it has not seen
FreshState ==
    [insideArtifact |-> FALSE, insideAction |-> FALSE, currentArtifact |-> NoArtifact,
     currentAction |-> NoAction, actionId |-> 1, buffer |-> <<>>]

\* a buffer that keeps the whole of the input
RetainAll(fullInput, from) == fullInput

\* state.buffer = fullInput.slice(from)
Retain(fullInput, from) == SliceFrom(fullInput, from)

\* the positions fullInput.slice(a, b) takes, as no span or one span <<first, end>>
Span(fullInput, a, b) ==
    IF Clamp(b, Len(fullInput)) <= Clamp(a, Len(fullInput)) THEN <<>>
    ELSE <<<<Clamp(a, Len(fullInput)), Clamp(b, Len(fullInput))>>>>

\* a pass inside an action that leaves the artifact and keeps the action open
InsideActionLeaving(r, fullInput, lowerInput) ==
    [r EXCEPT !.state.insideArtifact = FALSE, !.i = Len(fullInput)]

\* one pass of parse's while loop, inside an action: looking for the action close tag
InsideAction(r, fullInput, lowerInput) ==
    LET st == r.state
        i == r.i
        closeIndex == IndexOf(lowerInput, ACTION_TAG_CLOSE, i)
        lastLt == LastIndexOf(fullInput, <<"<">>, Len(fullInput) - 1)
    IN  IF closeIndex # -1
        THEN LET raw == st.currentAction.content \o Slice(fullInput, i, closeIndex)
                 content == Trim(raw) \o (IF st.currentAction.type = FileType THEN <<"\n">> ELSE <<>>)
                 completed == [type |-> st.currentAction.type,
                               path |-> st.currentAction.path,
                               content |-> UnescapeBacktick(UnescapeInterpolation(content))]
             IN  [r EXCEPT !.events = Append(@, Notification("action-complete", st.currentArtifact,
                                                             completed, st.actionId - 1, raw)),
                           !.stream = @ \o completed.content,
                           !.spans = @ \o Span(fullInput, i, closeIndex),
                           !.state = [st EXCEPT !.insideAction = FALSE, !.currentAction = NoAction],
                           !.i = closeIndex + Len(ACTION_TAG_CLOSE)]
        ELSE IF lastLt >= i /\ StartsWith(ACTION_TAG_CLOSE, SliceFrom(lowerInput, lastLt))
        THEN [r EXCEPT !.state = [st EXCEPT !.currentAction.content = @ \o Slice(fullInput, i, lastLt),
                                            !.buffer = Retain(fullInput, lastLt)],
                       !.spans = @ \o Span(fullInput, i, lastLt),
                       !.i = Len(fullInput)]
        ELSE [r EXCEPT !.state = [st EXCEPT !.currentAction.content = @ \o SliceFrom(fullInput, i)],
                       !.spans = @ \o Span(fullInput, i, Len(fullInput)),
                       !.i = Len(fullInput)]

\* one pass outside any artifact: free text up to an artifact open tag
OutsideArtifact(r, fullInput, lowerInput, now) ==
    LET st == r.state
        i == r.i
        artifactOpenIndex == IndexOf(lowerInput, ARTIFACT_TAG_OPEN, i)
        before == IF artifactOpenIndex > i THEN Slice(fullInput, i, artifactOpenIndex) ELSE <<>>
        openTagEnd == IndexOf(fullInput, <<">">>, artifactOpenIndex)
        artifactTag == Slice(fullInput, artifactOpenIndex, openTagEnd + 1)
        artifact == [id |-> OrElse(ExtractAttribute(artifactTag, <<"i", "d">>), <<"artifact-", now>>),
                     title |-> OrElse(ExtractAttribute(artifactTag, <<"t", "i", "t", "l", "e">>), <<"U", "n", "t", "i", "t", "l", "e", "d">>)]
        lastLt == LastIndexOf(fullInput, <<"<">>, Len(fullInput) - 1)
    IN  IF artifactOpenIndex # -1
        THEN IF openTagEnd # -1
             THEN [r EXCEPT !.output = @ \o before,
                            !.stream = @ \o before,
                            !.spans = @ \o (IF artifactOpenIndex > i THEN Span(fullInput, i, artifactOpenIndex) ELSE <<>>),
                            !.events = Append(@, Notification("artifact-open", artifact, NoAction, 0, <<>>)),
                            !.state = [st EXCEPT !.insideArtifact = TRUE, !.currentArtifact = artifact],
                            !.i = openTagEnd + 1]
             ELSE [r EXCEPT !.output = @ \o before,
                            !.stream = @ \o before,
                            !.spans = @ \o (IF artifactOpenIndex > i THEN Span(fullInput, i, artifactOpenIndex) ELSE <<>>),
                            !.state = [st EXCEPT !.buffer = Retain(fullInput, artifactOpenIndex)],
                            !.i = Len(fullInput)]
        ELSE IF lastLt >= i /\ StartsWith(ARTIFACT_TAG_OPEN, SliceFrom(lowerInput, lastLt))
        THEN [r EXCEPT !.output = @ \o Slice(fullInput, i, lastLt),
                       !.stream = @ \o Slice(fullInput, i, lastLt),
                       !.spans = @ \o Span(fullInput, i, lastLt),
                       !.state = [st EXCEPT !.buffer = Retain(fullInput, lastLt)],
                       !.i = Len(fullInput)]
        ELSE [r EXCEPT !.output = @ \o SliceFrom(fullInput, i),
                       !.stream = @ \o SliceFrom(fullInput, i),
                       !.spans = @ \o Span(fullInput, i, Len(fullInput)),
                       !.i = Len(fullInput)]

\* a pass inside an artifact that looks for an artifact open tag again
InsideArtifactReopening(r, fullInput, lowerInput) == OutsideArtifact(r, fullInput, lowerInput, "1")

\* one pass inside an artifact, outside an action: an action open tag or the artifact close tag
InsideArtifact(r, fullInput, lowerInput) ==
    LET st == r.state
        i == r.i
        actionOpenIndex == IndexOf(lowerInput, ACTION_TAG_OPEN, i)
        artifactCloseIndex == IndexOf(lowerInput, ARTIFACT_TAG_CLOSE, i)
        openTagEnd == IndexOf(fullInput, <<">">>, actionOpenIndex)
        lastLt == LastIndexOf(fullInput, <<"<">>, Len(fullInput) - 1)
        suffix == SliceFrom(lowerInput, lastLt)
    IN  IF actionOpenIndex # -1 /\ (artifactCloseIndex = -1 \/ actionOpenIndex < artifactCloseIndex)
        THEN IF openTagEnd # -1
             THEN LET opened == ParseActionTag(fullInput, actionOpenIndex, openTagEnd)
                  IN  [r EXCEPT !.events = Append(@, Notification("action-open", st.currentArtifact,
                                                                  opened, st.actionId, <<>>)),
                                !.state = [st EXCEPT !.insideAction = TRUE,
                                                     !.currentAction = opened,
                                                     !.actionId = @ + 1],
                                !.i = openTagEnd + 1]
             ELSE [r EXCEPT !.state = [st EXCEPT !.buffer = Retain(fullInput, actionOpenIndex)],
                            !.i = Len(fullInput)]
        ELSE IF artifactCloseIndex # -1
        THEN [r EXCEPT !.events = Append(@, Notification("artifact-close", st.currentArtifact,
                                                         NoAction, 0, <<>>)),
                       !.state = [st EXCEPT !.insideArtifact = FALSE, !.currentArtifact = NoArtifact],
                       !.i = artifactCloseIndex + Len(ARTIFACT_TAG_CLOSE)]
        ELSE IF /\ lastLt >= i
                /\ (StartsWith(ACTION_TAG_OPEN, suffix) \/ StartsWith(ARTIFACT_TAG_CLOSE, suffix))
        THEN [r EXCEPT !.state = [st EXCEPT !.buffer = Retain(fullInput, lastLt)],
                       !.i = Len(fullInput)]
        ELSE [r EXCEPT !.i = Len(fullInput)]

RECURSIVE ParseLoop(_, _, _, _)
\* while (i < fullInput.length)
ParseLoop(r, fullInput, lowerInput, now) ==
    IF r.i >= Len(fullInput) THEN r
    ELSE ParseLoop(IF r.state.insideArtifact
                   THEN (IF r.state.insideAction
                         THEN InsideAction(r, fullInput, lowerInput)
                         ELSE InsideArtifact(r, fullInput, lowerInput))
                   ELSE OutsideArtifact(r, fullInput, lowerInput, now),
                   fullInput, lowerInput, now)

\* parse(messageId, input) on the stream's state: the state after, the returned text
\* and the callbacks made, in order; now is Date.now(); stream is the text handed to
\* onText and the content handed to onActionComplete, in the order of the calls
\* and spans the positions of fullInput sliced into that text and into action content
Parse(state, input, now) ==
    LET fullInput == state.buffer \o input
    IN  ParseLoop([state |-> [state EXCEPT !.buffer = <<>>], i |-> 0, output |-> <<>>,
                   events |-> <<>>, stream |-> <<>>, spans |-> <<>>],
                  fullInput, ToLowerCase(fullInput), now)

(***************************************************************************)
(* Bounds of the model                                                     *)
(***************************************************************************)
\* queueAction calls per behaviour
MaxActions == 2

NoError == <<>>

NoPath == <<>>

NoProc == <<>>

\* commands a queued shell action carries
Commands == {NpmInstall, NpmRunDev, NpmStart}

\* paths a queued file action carries
Paths == {AppTsx}

\* ParsedAction | QueuedAction values handed to queueAction
QueuedActions ==
    {[type |-> "file", path |-> p, content |-> <<"x">>] : p \in Paths}
        \cup {[type |-> "shell", path |-> NoPath, content |-> c] : c \in Commands}

Digit(n) == IF n = 0 THEN <<"0">> ELSE <<"1">>

\* exit codes a sandbox process ends with
ExitCodes == {0, 1}

\* what a process that ends with exit code c may have written to its output
Outputs(c) == IF c = 0 THEN {<<>>} ELSE {<<>>, <<"n", "p", "m", " ", "E", "R", "R", "!", " ", "c", "o", "d", "e", " ", "E", "R", "E", "S", "O", "L", "V", "E">>}

\* messages of errors thrown by sandbox calls (webcontainer.fs.*, webcontainer.spawn)
SandboxErrors == {<<"E", "I", "O">>}

\* messages of errors thrown by the sandbox calls of the boot sequence
BootErrors ==
    SandboxErrors \cup {<<"I", "n", "v", "a", "l", "i", "d", " ", "e", "s", "c", "a", "p", "e", " ", "s", "e", "q", "u", "e", "n", "c", "e", " ", "i", "n", " ", "s", "r", "c", "/", "A", "p", "p", ".", "t", "s", "x", ":", "1", ":", "9">>,
                        <<"n", "p", "m", " ", "E", "R", "R", "!", " ", "c", "o", "d", "e", " ", "E", "R", "E", "S", "O", "L", "V", "E">>,
                        <<"S", "y", "n", "t", "a", "x", "E", "r", "r", "o", "r", ":", " ", "U", "n", "e", "x", "p", "e", "c", "t", "e", "d", " ", "t", "o", "k", "e", "n">>,
                        <<"m", "o", "d", "u", "l", "e", " ", "i", "s", " ", "n", "o", "t", " ", "d", "e", "f", "i", "n", "e", "d", " ", "i", "n", " ", "E", "S", " ", "m", "o", "d", "u", "l", "e", " ", "s", "c", "o", "p", "e">>}

\* messages runCheckpoint's catch block hands to attemptRecovery
CaughtErrors == BootErrors \cup {InstallFailedWithCode \o Digit(c) : c \in ExitCodes}

\* detectErrorType on the messages of CaughtErrors, computed once
Detected == [e \in CaughtErrors |-> DetectErrorType(e)]

Detect(error) == Detected[error]

\* the project handed to runBootSequence
ProjectFiles ==
    <<[path |-> <<"p", "a", "c", "k", "a", "g", "e", ".", "j", "s", "o", "n">>, content |-> <<"{", "}">>],
      [path |-> AppTsx, content |-> <<"f", "r", "o", "m", " ", "'", ".", ".", "/", "u", "t", "i", "l", "s", "/", "c", "n", "'", " ", "\\", "$", "{", "b", "}">>],
      [path |-> PostcssConfig, content |-> <<"m", "o", "d", "u", "l", "e", ".", "e", "x", "p", "o", "r", "t", "s", " ", "=", " ", "{", "}">>]>>

\* RecoveryManager.maxRetries
MaxRetries == 2

\* calls of runBootSequence per behaviour
MaxBoots == 2

\* stream ids handed to parse
StreamIds == {"m1"}

\* values of Date.now() during a parse call
Times == {"1", "2"}

\* complete responses, each fed to parse in chunks
ParserInputs ==
    {<<"H", "i", " ", "<", "o", "r", "b", "i", "t", "A", "r", "t", "i", "f", "a", "c", "t", " ", "i", "d", "=", "\"", "a", "\"", " ", "t", "i", "t", "l", "e", "=", "\"", "t", "\"", ">", "<", "o", "r", "b", "i", "t", "A", "c", "t", "i", "o", "n", " ", "t", "y", "p", "e", "=", "\"", "f", "i", "l", "e", "\"", " ", "p", "a", "t", "h", "=", "\"", "p", "\"", ">", " ", "\\", "U+0060", "\\", "$", "{", "y", "}", "\\", "U+0060", " ", "<", "/", "o", "r", "b", "i", "t", "A", "c", "t", "i", "o", "n", ">", "<", "/", "o", "r", "b", "i", "t", "A", "r", "t", "i", "f", "a", "c", "t", ">", "!">>,
     <<"<", "o", "r", "b", "i", "t", "A", "r", "t", "i", "f", "a", "c", "t", ">", "<", "o", "r", "b", "i", "t", "A", "c", "t", "i", "o", "n", " ", "t", "y", "p", "e", "=", "\"", "s", "h", "e", "l", "l", "\"", ">", "a", "<", "b", "<", "/", "o", "r", "b", "i", "t", "A", "c", "t", "i", "o", "n", ">", "<", "/", "o", "r", "b", "i", "t", "A", "r", "t", "i", "f", "a", "c", "t", ">">>,
     <<"U+0130", "<", "o", "r", "b", "i", "t", "A", "r", "t", "i", "f", "a", "c", "t", " ", "i", "d", "=", "\"", "a", "\"", ">", "<", "o", "r", "b", "i", "t", "A", "c", "t", "i", "o", "n", " ", "t", "y", "p", "e", "=", "\"", "s", "h", "e", "l", "l", "\"", ">", "l", "s", "<", "/", "o", "r", "b", "i", "t", "A", "c", "t", "i", "o", "n", ">", "<", "/", "o", "r", "b", "i", "t", "A", "r", "t", "i", "f", "a", "c", "t", ">">>}

\* stream ids of two responses streamed side by side
ResetStreamIds == {"m1", "m2"}

\* the responses streamed side by side
ResetInputs ==
    {<<"<", "o", "r", "b", "i", "t", "A", "r", "t", "i", "f", "a", "c", "t", ">", "<", "o", "r", "b", "i", "t", "A", "c", "t", "i", "o", "n", ">", "x", "<", "/", "o", "r", "b", "i", "t", "A", "c", "t", "i", "o", "n", ">", "z", "<">>,
     <<"<", "o", "r", "b", "i", "t", "A", "r", "t", "i", "f", "a", "c", "t", " ", "v", "a", "l", "i", "d", "=", "\"", "n", "o", "\"", " ", "t", "i", "t", "l", "e", "=", "\"", "t", "\"", ">", "<", "o", "r", "b", "i", "t", "A", "c", "t", "i", "o", "n", " ", "m", "i", "m", "e", "t", "y", "p", "e", "=", "\"", "s", "h", "e", "l", "l", "\"", ">", "l", "s", "<", "/", "o", "r", "b", "i", "t", "A", "c", "t", "i", "o", "n", ">", "o", "k">>}

\* lengths of the chunks the two responses arrive in
ResetChunks == {16, 30}

\* each response parsed in a single call
Whole == [input \in ParserInputs |-> Parse(FreshState, input, "1")]

\* lines of build and install output
ErrorLines ==
    {<<"I", "n", "v", "a", "l", "i", "d", " ", "e", "s", "c", "a", "p", "e", " ", "s", "e", "q", "u", "e", "n", "c", "e", " ", "i", "n", " ", "s", "r", "c", "/", "A", "p", "p", ".", "t", "s", "x", ":", "1", ":", "9">>,
     <<"U", "n", "e", "x", "p", "e", "c", "t", "e", "d", " ", "c", "h", "a", "r", "a", "c", "t", "e", "r">>,
     <<"n", "p", "m", " ", "E", "R", "R", "!", " ", "c", "o", "d", "e", " ", "E", "R", "E", "S", "O", "L", "V", "E">>,
     <<"C", "o", "n", "f", "l", "i", "c", "t">>,
     <<"p", "e", "e", "r", " ", "d", "e", "p", "e", "n", "d", "e", "n", "c", "y">>,
     <<"S", "y", "n", "t", "a", "x", "E", "r", "r", "o", "r">>,
     <<"U", "n", "e", "x", "p", "e", "c", "t", "e", "d", " ", "t", "o", "k", "e", "n">>,
     <<"s", "h", ":", " ", "v", "i", "t", "e", ":", " ", "c", "o", "m", "m", "a", "n", "d", " ", "n", "o", "t", " ", "f", "o", "u", "n", "d">>,
     <<"m", "o", "d", "u", "l", "e", " ", "i", "s", " ", "n", "o", "t", " ", "d", "e", "f", "i", "n", "e", "d", " ", "i", "n", " ", "E", "S", " ", "m", "o", "d", "u", "l", "e", " ", "s", "c", "o", "p", "e">>,
     <<"R", "e", "f", "e", "r", "e", "n", "c", "e", "E", "r", "r", "o", "r", ":", " ", "m", "o", "d", "u", "l", "e", " ", "i", "s", " ", "n", "o", "t", " ", "d", "e", "f", "i", "n", "e", "d">>,
     <<"f", "a", "i", "l", "e", "d">>}

\* error texts handed to detectErrorType: two lines of output
ErrorTexts == {a \o <<"\n">> \o b : a, b \in ErrorLines}

\* ErrorType.type, as the union in RecoveryManager.ts and the cases of suggestFix name it
ErrorTypes ==
    {"template-literal-escape-error", "npm-version-conflict", "peer-dependency-error",
     "syntax-error", "missing-dependency", "esm-cjs-conflict", "missing-import",
     "circular-dependency", "css-syntax", "unknown"}

\* detectErrorType and its keyword tests on each error text
Classified ==
    [e \in ErrorTexts |-> [type |-> DetectErrorType(e).type,
                           matching |-> {t \in ErrorTypes : Matches(e, t)}]]

\* the dev-server actions queued beside a boot sequence
BootQueuedActions == {[type |-> "shell", path |-> NoPath, content |-> NpmRunDev]}

VARIABLES
    actions,                  \* ActionRunner.actions: action id -> ActionState
    actionIdCounter,          \* ActionRunner.actionIdCounter
    tasks,                    \* the #executionQueue promise chain, in enqueue order
    abortControllers,         \* keys of #abortControllers
    signalAborted,            \* ids whose AbortController.signal.aborted is true
    isCleanedUp,              \* #isCleanedUp
    hasFailedCriticalAction,  \* #hasFailedCriticalAction
    devServerProcess,         \* #devServerProcess: a handle of ops, or NoProc
    ops,                      \* sandbox: file writes and process spawns, by handle
    nodeModules,              \* sandbox: the node_modules directory exists
    warnings,                 \* callbacks.onWarning calls: how many of each kind
    startLog,                 \* ids in the order callbacks.onActionStart was called
    boot,                     \* the runBootSequence call: where it is suspended, its locals
    files,                    \* the ProjectFile[] handed to runBootSequence
    retryCount,               \* RecoveryManager.retryCount
    states,                   \* StreamingActionParser.#states: stream id -> ParserState
    source,                   \* per stream id, the complete response of the model
    pending,                  \* per stream id, the part of the response not yet fed to parse
    emitted,                  \* per stream id, the callbacks made, the text returned so far, the
                              \* positions of the response it and the action contents were taken
                              \* from, and whether text retained by one call was emitted by a later one
    discarded,                \* stream ids handed to reset (all of them for reset()) and not parsed since
    errorText,                \* the text last handed to ErrorDetector.detectErrorType
    errorType,                \* the type of the ErrorType it returned
    suggested,                \* the last AutoFix.suggestFix call: its error, its files, what it returned
    body,                     \* the text of the response of generate-app (server-sent events)
    unread,                   \* the part of it reader.read() has not returned yet
    lineBuffer,               \* runStreamingPipeline's lineBuffer
    fragments,                \* the texts handed to parser.parse by the read loop, in order
    reading,                  \* the read loop: "idle", "reading", or "done" after its final flush
    clock,                    \* Date.now()
    lastRequestTime,          \* the rate limiter's module variable
    wake,                     \* per caller inside waitForRateLimit: when its timer is due, 0 if none
    issued,                   \* the instants at which requests went out, in order
    manifest                  \* the last package.json handed to writeFile: its content, what the
                              \* Dependency Guard made of it, and of that in turn

execVars == <<actions, actionIdCounter, tasks, abortControllers, signalAborted,
              isCleanedUp, hasFailedCriticalAction, devServerProcess, ops,
              nodeModules, warnings, startLog>>

bootVars == <<boot, files, retryCount>>

parserVars == <<states, source, pending, emitted, discarded>>

detectorVars == <<errorText, errorType, suggested>>

limiterVars == <<clock, lastRequestTime, wake, issued>>

clientVars == <<body, unread, lineBuffer, fragments, reading, manifest, limiterVars>>

otherVars == <<bootVars, parserVars, detectorVars, clientVars>>

vars == <<execVars, bootVars, parserVars, detectorVars, clientVars>>

Terminal == {"complete", "failed", "aborted"}

(***************************************************************************)
(* ActionRunner helpers                                                    *)
(***************************************************************************)
\* the messages handed to callbacks.onWarning, by the place that sends them
WarningKinds ==
    {"cleaned-up", "dev-server-running", "prerequisite-failed", "checkpoint-failed",
     "retry-failed", "exit-code"}

\* callbacks.onWarning(message)
Warn(w, kind) == [w EXCEPT ![kind] = @ + 1]

\* createAction: a new record with status pending under the next id
CreateAction(acts, id, type, description, path) ==
    [i \in DOMAIN acts \cup {id} |->
        IF i = id
        THEN [id |-> id, type |-> type, status |-> "pending",
              description |-> description, path |-> path, error |-> NoError]
        ELSE acts[i]]

\* updateStatus: no effect when the record is not in the table
UpdateStatus(acts, id, status, error) ==
    IF id \in DOMAIN acts
    THEN [acts EXCEPT ![id].status = status,
                      ![id].error = IF error # NoError THEN error ELSE @]
    ELSE acts

\* queueAction's description of the action
Description(action) ==
    IF action.type = "file"
    THEN WritingPrefix \o (IF action.path # NoPath THEN action.path ELSE Unknown)
    ELSE RunningPrefix \o Slice(action.content, 0, 50) \o <<".", ".", ".">>

\* IsCritical with the test of the description dropped
IsCriticalNever(description) == FALSE

\* description.toLowerCase().includes('npm install')
IsCritical(description) == Includes(ToLowerCase(description), NpmInstall)

\* command.includes('npm run dev') || command.includes('npm start')
IsDevCommand(command) == Includes(command, NpmRunDev) \/ Includes(command, NpmStart)

\* command.trim().split(/\s+/)
CommandParts(command) == SplitOn(Trim(command), WhiteSpace, TRUE)

\* writeFile: src/src/ and public/public/ prefixes are flattened
FinalPath(path) ==
    IF StartsWith(path, SrcSrc) THEN <<"s", "r", "c", "/">> \o SliceFrom(path, Len(SrcSrc))
    ELSE IF StartsWith(path, PublicPublic) THEN <<"p", "u", "b", "l", "i", "c", "/">> \o SliceFrom(path, Len(PublicPublic))
    ELSE path

RECURSIVE DotDots(_)
\* length of the match of (\.\.\/)+ at the head of s, 0 for no match
DotDots(s) == IF StartsWith(s, <<".", ".", "/">>) THEN 3 + DotDots(SliceFrom(s, 3)) ELSE 0

\* length of the match of from\s+['"](\.\.\/)+utils\/cn['"] at the head of s, 0 for no match
DeepImportAt(s) ==
    IF ~StartsWith(s, <<"f", "r", "o", "m">>) THEN 0
    ELSE LET rest == SliceFrom(s, 4)
             ws == Len(rest) - Len(TrimStart(rest))
             quoted == SliceFrom(rest, ws)
         IN  IF ws = 0 \/ quoted = <<>> \/ Head(quoted) \notin {"'", "\""} THEN 0
             ELSE LET dd == DotDots(Tail(quoted))
                      target == SliceFrom(Tail(quoted), dd)
                  IN  IF /\ dd > 0
                         /\ StartsWith(target, <<"u", "t", "i", "l", "s", "/", "c", "n">>)
                         /\ Len(target) > 8
                         /\ target[9] \in {"'", "\""}
                      THEN 4 + ws + 1 + dd + 9
                      ELSE 0

RECURSIVE ReplaceDeepImports(_)
\* content.replace(deepRelativeRegex, "from '@/utils/cn'")
ReplaceDeepImports(s) ==
    IF s = <<>> THEN <<>>
    ELSE IF DeepImportAt(s) > 0
    THEN <<"f", "r", "o", "m", " ", "'", "@", "/", "u", "t", "i", "l", "s", "/", "c", "n", "'">> \o ReplaceDeepImports(SliceFrom(s, DeepImportAt(s)))
    ELSE <<Head(s)>> \o ReplaceDeepImports(Tail(s))

\* writeFile's Path Guard, for .tsx and .ts paths
PathGuard(path, content) ==
    IF EndsWith(path, <<".", "t", "s", "x">>) \/ EndsWith(path, <<".", "t", "s">>)
    THEN ReplaceDeepImports(content)
    ELSE content

\* the content writeFile hands to fs.writeFile; its guards for package.json,
\* tsconfig.json and .css paths apply to none of the paths written here
WriteGuards(path, content) == PathGuard(path, content)

\* the patterns of the fix-syntax suggestions
Patterns == {"template-literal", "module-exports"}

\* the contents the files of the project have, before and after a fix
Contents ==
    {ProjectFiles[i].content : i \in 1..Len(ProjectFiles)}
        \cup {ApplyPattern(pattern, ProjectFiles[i].content) :
                 i \in 1..Len(ProjectFiles), pattern \in Patterns}

\* ApplyPattern on these contents, computed once
Applied == [pattern \in Patterns, content \in Contents |-> ApplyPattern(pattern, content)]

\* the path and content of the writeFile calls made: queued file actions and the files
\* of the project after a fix
Writes ==
    {<<a.path, a.content>> : a \in {q \in QueuedActions : q.type = "file"}}
        \cup {<<AppTsx, <<"x", "\n">>>>}
        \cup {<<ProjectFiles[i].path, content>> : i \in 1..Len(ProjectFiles), content \in Contents}

\* WriteGuards on these calls, computed once
Guarded == [w \in Writes |-> WriteGuards(w[1], w[2])]

\* finalPath.split('/').slice(0, -1).join('/')
DirOf(finalPath) ==
    LET parts == SplitOn(finalPath, {"/"}, FALSE)
    IN  Join(SubSeq(parts, 1, Len(parts) - 1), <<"/">>)

\* the values above for the actions of QueuedActions, computed once
Memo ==
    [a \in QueuedActions |->
        [critical |-> IsCritical(Description(a)),
         dev |-> IsDevCommand(a.content),
         parts |-> CommandParts(a.content)]]

Critical(a) == IF a \in QueuedActions THEN Memo[a].critical ELSE IsCritical(Description(a))

DevCommand(a) == IF a \in QueuedActions THEN Memo[a].dev ELSE IsDevCommand(a.content)

PartsOf(a) == IF a \in QueuedActions THEN Memo[a].parts ELSE CommandParts(a.content)

\* the sandbox: which spawned commands create node_modules when they exit 0
IsInstallCommand(parts) ==
    Len(parts) >= 2 /\ parts[1] = <<"n", "p", "m">> /\ parts[2] = <<"i", "n", "s", "t", "a", "l", "l">>

\* the exit code of a call that is no exited process
NoCode == -1

\* a call of webcontainer.spawn(cmd, args), not yet resolved
SpawnCall(parts, by, dev) ==
    [kind |-> "spawn", what |-> parts, by |-> by, dev |-> dev, state |-> "calling", code |-> NoCode, output |-> <<>>, content |-> <<>>]

\* a call of webcontainer.fs.writeFile(finalPath, content), not yet resolved
WriteCall(path, by, content) ==
    [kind |-> "write", what |-> path, by |-> by, dev |-> FALSE, state |-> "calling", code |-> NoCode, output |-> <<>>, content |-> content]

\* the handle of the next sandbox call made by caller by: <<by, n>> for its n-th call
NewHandle(o, by) == <<by, Cardinality({h \in DOMAIN o : h[1] = by}) + 1>>

\* the sandbox after caller by has made the call op
Call(o, by, op) == [h \in DOMAIN o \cup {NewHandle(o, by)} |-> IF h \in DOMAIN o THEN o[h] ELSE op]

\* a kill that leaves the process running
KillNothing(o, p) == o

\* process.kill()
Kill(o, p) == IF o[p].state = "alive" THEN [o EXCEPT ![p].state = "killed"] ELSE o

\* SignalAborted with the token never seen as aborted
SignalAbortedNever(id) == FALSE

\* abortController.signal.aborted
SignalAborted(id) == id \in signalAborted

\* DevServerTracked with the handle never seen as set
DevServerTrackedNever == FALSE

\* this.#devServerProcess is set
DevServerTracked == devServerProcess # NoProc

\* Rejecting with the guard dropped
RejectingNever == FALSE

\* queueAction's guard: if (this.#isCleanedUp) warn and return
Rejecting == isCleanedUp

\* PrerequisiteOk with the exit code ignored
PrerequisiteOkAlways(exitCode) == TRUE

\* runShellAction's test of the prerequisite install's exit code
PrerequisiteOk(exitCode) == exitCode = 0

\* ChainSettled with every callback started at once
ChainSettledAlways(k) == TRUE

\* ChainSettled with the chain awaited in the reverse order
ChainSettledLifo(k) == IF k = Len(tasks) THEN TRUE ELSE tasks[k + 1].pc = "done"

\* a chain that a failed action breaks for the actions behind it
ChainSettledUnlessFailed(k) ==
    IF k = 1 THEN TRUE
    ELSE /\ tasks[k - 1].pc = "done"
         /\ tasks[k - 1].id \in DOMAIN actions => actions[tasks[k - 1].id].status # "failed"

\* the promise before task k in the chain has settled
ChainSettled(k) == IF k = 1 THEN TRUE ELSE tasks[k - 1].pc = "done"

\* a queued callback that takes every action for complete
OutcomeComplete(ok) == "complete"

\* the status queueAction's callback gives the action: complete after its try block,
\* failed in its catch block
Outcome(ok) == IF ok THEN "complete" ELSE "failed"

\* the tail of the queued callback: complete, or the catch block; then finally
Finish(k, acts, ok, error) ==
    /\ actions' = UpdateStatus(acts, tasks[k].id, Outcome(ok), error)
    /\ hasFailedCriticalAction' =
          (hasFailedCriticalAction \/ (~ok /\ Critical(tasks[k].action)))
    /\ abortControllers' = abortControllers \ {tasks[k].id}
    /\ tasks' = [tasks EXCEPT ![k].pc = "done"]

\* a text JSON.parse rejects
InvalidJson == [layout |-> "compact", value |-> [kind |-> "invalid"]]

\* no package.json written yet
NoManifest == [content |-> InvalidJson, written |-> InvalidJson, rewritten |-> InvalidJson]

\* const MIN_DELAY_MS = 5000
MIN_DELAY_MS == 5000

\* Date.now() when the page has loaded: more than MIN_DELAY_MS after the epoch
FirstInstant == 2 * MIN_DELAY_MS

\* the callers of waitForRateLimit
Callers == {"analyze", "plan", "edit"}

\* no response is being read, no package.json written, no request made
ClientIdle ==
    /\ body = <<>>
    /\ unread = <<>>
    /\ lineBuffer = <<>>
    /\ fragments = <<>>
    /\ reading = "idle"
    /\ manifest = NoManifest
    /\ clock = FirstInstant
    /\ lastRequestTime = 0
    /\ wake = [c \in Callers |-> 0]
    /\ issued = <<>>

ExecInit ==
    /\ actions = <<>>
    /\ actionIdCounter = 0
    /\ tasks = <<>>
    /\ abortControllers = {}
    /\ signalAborted = {}
    /\ isCleanedUp = FALSE
    /\ hasFailedCriticalAction = FALSE
    /\ devServerProcess = NoProc
    /\ ops = <<>>
    /\ nodeModules = FALSE
    /\ warnings = [kind \in WarningKinds |-> 0]
    /\ startLog = <<>>
    /\ boot = [pc |-> "idle", checkpoint |-> "none", rec |-> 0, proc |-> NoProc,
               path |-> NoPath, retry |-> FALSE, result |-> FALSE, passed |-> {},
               caught |-> NoError, run |-> 0]
    /\ files = ProjectFiles
    /\ retryCount = 0

NoEmission == [id \in StreamIds |-> [events |-> <<>>, output |-> <<>>, stream |-> <<>>, spans |-> <<>>, carried |-> FALSE]]

\* no response is being streamed
Init ==
    /\ ExecInit
    /\ states = [id \in {} |-> FreshState]
    /\ source = [id \in StreamIds |-> <<>>]
    /\ pending = source
    /\ emitted = NoEmission
    /\ discarded = {}
    /\ errorText = NoError
    /\ errorType = "none"
    /\ suggested = NotSuggested
    /\ ClientIdle

\* a response is about to be streamed for each stream id
ParserInit ==
    /\ ExecInit
    /\ states = [id \in {} |-> FreshState]
    /\ source \in [StreamIds -> ParserInputs]
    /\ pending = source
    /\ emitted = NoEmission
    /\ discarded = {}
    /\ errorText = NoError
    /\ errorType = "none"
    /\ suggested = NotSuggested
    /\ ClientIdle

\* queueAction calls refused so far
Rejections == warnings["cleaned-up"]

(***************************************************************************)
(* queueAction and the queued callback                                     *)
(***************************************************************************)
QueueAction(action) ==
    /\ UNCHANGED otherVars
    /\ IF Rejecting
       THEN /\ warnings' = Warn(warnings, "cleaned-up")
            /\ UNCHANGED <<actions, actionIdCounter, tasks, abortControllers>>
       ELSE LET id == actionIdCounter + 1
            IN  /\ actionIdCounter' = id
                /\ actions' = CreateAction(actions, id, action.type, Description(action), action.path)
                /\ abortControllers' = abortControllers \cup {id}
                /\ tasks' = Append(tasks, [id |-> id, action |-> action, pc |-> "queued",
                                           proc |-> NoProc, inner |-> 0, error |-> NoError])
                /\ UNCHANGED warnings
    /\ UNCHANGED <<signalAborted, isCleanedUp, hasFailedCriticalAction, devServerProcess,
                   ops, nodeModules, startLog>>

\* the queued callback up to its first await
Dequeue(k) ==
    /\ UNCHANGED otherVars
    /\ k \in 1..Len(tasks)
    /\ tasks[k].pc = "queued"
    /\ ChainSettled(k)
    /\ LET t == tasks[k]
           a == t.action
       IN  IF hasFailedCriticalAction
           THEN /\ actions' = UpdateStatus(actions, t.id, "aborted", CriticalAbortMessage)
                /\ tasks' = [tasks EXCEPT ![k].pc = "done"]
                /\ UNCHANGED <<actionIdCounter, warnings, startLog, ops>>
           ELSE IF SignalAborted(t.id)
           THEN /\ actions' = UpdateStatus(actions, t.id, "aborted", NoError)
                /\ tasks' = [tasks EXCEPT ![k].pc = "done"]
                /\ UNCHANGED <<actionIdCounter, warnings, startLog, ops>>
           ELSE /\ startLog' = IF t.id \in DOMAIN actions THEN Append(startLog, t.id) ELSE startLog
                /\ IF a.type = "file"
                   THEN LET path == IF a.path # NoPath THEN a.path ELSE Unknown
                            inner == actionIdCounter + 1
                            started == UpdateStatus(actions, t.id, "running", NoError)
                            created == CreateAction(started, inner, "file", WritingPrefix \o path, NoPath)
                            dir == DirOf(FinalPath(path))
                        IN  /\ actionIdCounter' = inner
                            /\ actions' = UpdateStatus(created, inner, "running", NoError)
                            /\ IF dir # <<>>
                               THEN /\ tasks' = [tasks EXCEPT ![k].inner = inner, ![k].pc = "mkdir"]
                                    /\ UNCHANGED ops
                               ELSE /\ tasks' = [tasks EXCEPT ![k].inner = inner, ![k].pc = "write",
                                                              ![k].proc = NewHandle(ops, t.id)]
                                    /\ ops' = Call(ops, t.id, WriteCall(FinalPath(path), t.id, Guarded[<<path, a.content>>]))
                            /\ UNCHANGED warnings
                   ELSE /\ actions' = UpdateStatus(actions, t.id, "running", NoError)
                        /\ UNCHANGED actionIdCounter
                        /\ IF DevCommand(a) /\ DevServerTracked
                           THEN /\ warnings' = Warn(warnings, "dev-server-running")
                                /\ tasks' = [tasks EXCEPT ![k].pc = "return"]
                                /\ UNCHANGED ops
                           ELSE IF DevCommand(a)
                           THEN /\ tasks' = [tasks EXCEPT ![k].pc = "readdir"]
                                /\ UNCHANGED <<warnings, ops>>
                           ELSE /\ tasks' = [tasks EXCEPT ![k].pc = "spawn", ![k].proc = NewHandle(ops, t.id)]
                                /\ ops' = Call(ops, t.id, SpawnCall(PartsOf(a), t.id, FALSE))
                                /\ UNCHANGED warnings
    /\ UNCHANGED <<abortControllers, signalAborted, isCleanedUp, hasFailedCriticalAction,
                   devServerProcess, nodeModules>>

\* writeFile: fs.mkdir resolved or threw (ignored either way), fs.writeFile is called
MkdirDone(k) ==
    /\ UNCHANGED otherVars
    /\ k \in 1..Len(tasks)
    /\ tasks[k].pc = "mkdir"
    /\ LET a == tasks[k].action
           path == IF a.path # NoPath THEN a.path ELSE Unknown
       IN  /\ tasks' = [tasks EXCEPT ![k].pc = "write", ![k].proc = NewHandle(ops, tasks[k].id)]
           /\ ops' = Call(ops, tasks[k].id, WriteCall(FinalPath(path), tasks[k].id, Guarded[<<path, a.content>>]))
    /\ UNCHANGED <<actions, actionIdCounter, abortControllers, signalAborted, isCleanedUp,
                   hasFailedCriticalAction, devServerProcess, nodeModules, warnings, startLog>>

\* writeFile: fs.writeFile resolved (error = NoError) or threw
WriteDone(k, error) ==
    /\ UNCHANGED otherVars
    /\ k \in 1..Len(tasks)
    /\ tasks[k].pc = "write"
    /\ LET ok == error = NoError
           inner == UpdateStatus(actions, tasks[k].inner, IF ok THEN "complete" ELSE "failed", error)
       IN  /\ ops' = [ops EXCEPT ![tasks[k].proc].state = IF ok THEN "written" ELSE "threw"]
           /\ Finish(k, inner, ok, error)
    /\ UNCHANGED <<actionIdCounter, signalAborted, isCleanedUp, devServerProcess, nodeModules,
                   warnings, startLog>>

\* runShellAction: the dev-server-already-running early return reaches queueAction
Resume(k) ==
    /\ UNCHANGED otherVars
    /\ k \in 1..Len(tasks)
    /\ tasks[k].pc = "return"
    /\ Finish(k, actions, TRUE, NoError)
    /\ UNCHANGED <<actionIdCounter, signalAborted, isCleanedUp, devServerProcess, ops,
                   nodeModules, warnings, startLog>>

\* runShellAction: fs.readdir('node_modules') resolved or threw; spawn is called
ReaddirDone(k) ==
    /\ UNCHANGED otherVars
    /\ k \in 1..Len(tasks)
    /\ tasks[k].pc = "readdir"
    /\ LET t == tasks[k]
       IN  IF nodeModules
           THEN /\ tasks' = [tasks EXCEPT ![k].pc = "spawn", ![k].proc = NewHandle(ops, t.id)]
                /\ ops' = Call(ops, t.id, SpawnCall(PartsOf(t.action), t.id, TRUE))
           ELSE /\ tasks' = [tasks EXCEPT ![k].pc = "spawnInstall", ![k].proc = NewHandle(ops, t.id)]
                /\ ops' = Call(ops, t.id, SpawnCall(CommandParts(NpmInstall), t.id, FALSE))
    /\ UNCHANGED <<actions, actionIdCounter, abortControllers, signalAborted, isCleanedUp,
                   hasFailedCriticalAction, devServerProcess, nodeModules, warnings, startLog>>

\* runShellCommandInternal for the prerequisite install: spawn resolved or threw
InstallSpawned(k, error) ==
    /\ UNCHANGED otherVars
    /\ k \in 1..Len(tasks)
    /\ tasks[k].pc = "spawnInstall"
    /\ LET t == tasks[k]
           p == t.proc
       IN  IF error # NoError
           THEN /\ ops' = [ops EXCEPT ![p].state = "threw"]
                /\ Finish(k, actions, FALSE, DependencyFailed \o error)
           ELSE IF SignalAborted(t.id)
           THEN /\ ops' = [ops EXCEPT ![p].state = "killed"]
                /\ Finish(k, actions, FALSE, DependencyFailed \o OperationAborted)
           ELSE /\ ops' = [ops EXCEPT ![p].state = "alive"]
                /\ tasks' = [tasks EXCEPT ![k].pc = "waitInstall"]
                /\ UNCHANGED <<actions, hasFailedCriticalAction, abortControllers>>
    /\ UNCHANGED <<actionIdCounter, signalAborted, isCleanedUp, devServerProcess, nodeModules,
                   warnings, startLog>>

\* the prerequisite install's process.exit resolved first in the race
InstallExit(k, code) ==
    /\ UNCHANGED otherVars
    /\ k \in 1..Len(tasks)
    /\ tasks[k].pc = "waitInstall"
    /\ ops[tasks[k].proc].state = "alive"
    /\ LET t == tasks[k]
           exited == [ops EXCEPT ![t.proc].state = "exited", ![t.proc].code = code]
       IN  IF PrerequisiteOk(code)
           THEN /\ nodeModules' = (nodeModules \/ code = 0)
                /\ tasks' = [tasks EXCEPT ![k].pc = "spawn", ![k].proc = NewHandle(exited, t.id)]
                /\ ops' = Call(exited, t.id, SpawnCall(PartsOf(t.action), t.id, TRUE))
                /\ UNCHANGED <<actions, hasFailedCriticalAction, abortControllers, warnings>>
           ELSE /\ ops' = exited
                /\ warnings' = Warn(warnings, "prerequisite-failed")
                /\ Finish(k, actions, FALSE,
                          DependencyFailed \o <<"U+274C", " ">> \o <<"P", "r", "e", "-", "r", "e", "q", "u", "i", "s", "i", "t", "e", " ", "n", "p", "m", " ", "i", "n", "s", "t", "a", "l", "l", " ", "f", "a", "i", "l", "e", "d", " ", "w", "i", "t", "h", " ", "e", "x", "i", "t", " ", "c", "o", "d", "e", " ">> \o Digit(code))
                /\ nodeModules' = (nodeModules \/ code = 0)
    /\ UNCHANGED <<actionIdCounter, signalAborted, isCleanedUp, devServerProcess, startLog>>

\* runShellCommandInternal for the action's own command: spawn resolved or threw
CommandSpawned(k, error) ==
    /\ UNCHANGED otherVars
    /\ k \in 1..Len(tasks)
    /\ tasks[k].pc = "spawn"
    /\ LET t == tasks[k]
           p == t.proc
           dev == ops[p].dev
           aborted == SignalAborted(t.id)
       IN  IF error # NoError
           THEN /\ ops' = [ops EXCEPT ![p].state = "threw"]
                /\ Finish(k, actions, FALSE, error)
                /\ UNCHANGED devServerProcess
           ELSE /\ ops' = [ops EXCEPT ![p].state = IF aborted THEN "killed" ELSE "alive"]
                /\ devServerProcess' = IF dev THEN p ELSE devServerProcess
                /\ IF dev
                   THEN Finish(k, actions, TRUE, NoError)
                   ELSE IF aborted
                   THEN Finish(k, actions, FALSE, OperationAborted)
                   ELSE /\ tasks' = [tasks EXCEPT ![k].pc = "wait"]
                        /\ UNCHANGED <<actions, hasFailedCriticalAction, abortControllers>>
    /\ UNCHANGED <<actionIdCounter, signalAborted, isCleanedUp, nodeModules, warnings, startLog>>

\* the command's process.exit resolved first in the race; the exit code is returned
CommandExit(k, code) ==
    /\ UNCHANGED otherVars
    /\ k \in 1..Len(tasks)
    /\ tasks[k].pc = "wait"
    /\ ops[tasks[k].proc].state = "alive"
    /\ ops' = [ops EXCEPT ![tasks[k].proc].state = "exited", ![tasks[k].proc].code = code]
    /\ nodeModules' = (nodeModules \/ (code = 0 /\ IsInstallCommand(ops[tasks[k].proc].what)))
    /\ Finish(k, actions, TRUE, NoError)
    /\ UNCHANGED <<actionIdCounter, signalAborted, isCleanedUp, devServerProcess, warnings, startLog>>

\* the timer of a non-dev-server command fired first in the race
Timeout(k) ==
    /\ UNCHANGED otherVars
    /\ k \in 1..Len(tasks)
    /\ tasks[k].pc \in {"wait", "waitInstall"}
    /\ ops[tasks[k].proc].state = "alive"
    /\ LET t == tasks[k]
           msg == <<"C", "o", "m", "m", "a", "n", "d", " ", "t", "i", "m", "e", "o", "u", "t", ":", " ">> \o Join(ops[t.proc].what, <<" ">>)
       IN  /\ ops' = Kill(ops, t.proc)
           /\ Finish(k, actions, FALSE, IF t.pc = "waitInstall" THEN DependencyFailed \o msg ELSE msg)
    /\ UNCHANGED <<actionIdCounter, signalAborted, isCleanedUp, devServerProcess, nodeModules,
                   warnings, startLog>>

\* the rejection of the abort promise reaches queueAction's catch block
Rejected(k) ==
    /\ UNCHANGED otherVars
    /\ k \in 1..Len(tasks)
    /\ tasks[k].pc = "aborting"
    /\ Finish(k, actions, FALSE, tasks[k].error)
    /\ UNCHANGED <<actionIdCounter, signalAborted, isCleanedUp, devServerProcess, ops,
                   nodeModules, warnings, startLog>>

(***************************************************************************)
(* abortAction, abortAll, cleanup                                          *)
(***************************************************************************)
\* the 'abort' listeners of the signals in ids: each kills its process and rejects
AbortListenersTasks(ids) ==
    [k \in 1..Len(tasks) |->
        IF tasks[k].id \in ids /\ tasks[k].pc \in {"wait", "waitInstall"}
        THEN [tasks[k] EXCEPT !.pc = "aborting",
                              !.error = IF tasks[k].pc = "waitInstall"
                                        THEN DependencyFailed \o OperationAborted
                                        ELSE OperationAborted]
        ELSE tasks[k]]

AbortListenersOps(ids) ==
    [p \in DOMAIN ops |->
        IF \E k \in 1..Len(tasks) : /\ tasks[k].id \in ids
                                    /\ tasks[k].pc \in {"wait", "waitInstall"}
                                    /\ tasks[k].proc = p
        THEN Kill(ops, p)[p]
        ELSE ops[p]]

AbortAction(id) ==
    /\ UNCHANGED otherVars
    /\ id \in abortControllers
    /\ signalAborted' = signalAborted \cup {id}
    /\ tasks' = AbortListenersTasks({id} \ signalAborted)
    /\ ops' = AbortListenersOps({id} \ signalAborted)
    /\ actions' = UpdateStatus(actions, id, "aborted", NoError)
    /\ UNCHANGED <<actionIdCounter, abortControllers, isCleanedUp, hasFailedCriticalAction,
                   devServerProcess, nodeModules, warnings, startLog>>

AbortAll ==
    /\ UNCHANGED otherVars
    /\ abortControllers # {}
    /\ signalAborted' = signalAborted \cup abortControllers
    /\ tasks' = AbortListenersTasks(abortControllers \ signalAborted)
    /\ ops' = AbortListenersOps(abortControllers \ signalAborted)
    /\ abortControllers' = {}
    /\ UNCHANGED <<actions, actionIdCounter, isCleanedUp, hasFailedCriticalAction,
                   devServerProcess, nodeModules, warnings, startLog>>

Cleanup ==
    /\ UNCHANGED otherVars
    /\ ~isCleanedUp
    /\ isCleanedUp' = TRUE
    /\ signalAborted' = signalAborted \cup abortControllers
    /\ tasks' = AbortListenersTasks(abortControllers \ signalAborted)
    /\ abortControllers' = {}
    /\ LET aborted == AbortListenersOps(abortControllers \ signalAborted)
       IN  ops' = IF DevServerTracked THEN Kill(aborted, devServerProcess) ELSE aborted
    /\ devServerProcess' = NoProc
    /\ actions' = <<>>
    /\ UNCHANGED <<actionIdCounter, hasFailedCriticalAction, nodeModules, warnings, startLog>>

(***************************************************************************)
(* runBootSequence, runCheckpoint, RecoveryManager.attemptRecovery         *)
(***************************************************************************)
\* the state the boot sequence reads and writes
BootState ==
    [actions |-> actions, counter |-> actionIdCounter, ops |-> ops, warnings |-> warnings,
     dev |-> devServerProcess, boot |-> boot, files |-> files, retryCount |-> retryCount]

BootApply(st) ==
    /\ actions' = st.actions
    /\ actionIdCounter' = st.counter
    /\ ops' = st.ops
    /\ warnings' = st.warnings
    /\ devServerProcess' = st.dev
    /\ boot' = st.boot
    /\ files' = st.files
    /\ retryCount' = st.retryCount

\* runShellCommand up to its first await (webcontainer.spawn)
StartShellCommand(st, parts, retry) ==
    LET id == st.counter + 1
        created == CreateAction(st.actions, id, "shell",
                                RunningPrefix \o Trim(Join(parts, <<" ">>)), NoPath)
    IN  [st EXCEPT !.counter = id,
                   !.actions = UpdateStatus(created, id, "running", NoError),
                   !.ops = Call(@, 0, SpawnCall(parts, 0, FALSE)),
                   !.boot = [@ EXCEPT !.pc = "cmdSpawn", !.rec = id,
                                      !.proc = NewHandle(st.ops, 0), !.retry = retry]]

\* files.findIndex(f => f.path === suggestion.file), 0 for -1
FindIndex(fs, path) ==
    LET hits == {i \in 1..Len(fs) : fs[i].path = path}
    IN  IF hits = {} THEN 0 ELSE MinOf(hits)

\* writeFile, called by attemptRecovery with the new content of the file, up to its
\* first await
StartWriteFile(st, path) ==
    LET id == st.counter + 1
        created == CreateAction(st.actions, id, "file", WritingPrefix \o path, NoPath)
        running == [st EXCEPT !.counter = id,
                              !.actions = UpdateStatus(created, id, "running", NoError)]
    IN  IF DirOf(FinalPath(path)) # <<>>
        THEN [running EXCEPT !.boot = [@ EXCEPT !.pc = "recoverMkdir", !.rec = id,
                                                !.path = path]]
        ELSE [running EXCEPT !.ops = Call(@, 0, WriteCall(FinalPath(path), 0,
                                         Guarded[<<path, st.files[FindIndex(st.files, path)].content>>])),
                             !.boot = [@ EXCEPT !.pc = "recoverWrite", !.rec = id,
                                                !.path = path, !.proc = NewHandle(st.ops, 0)]]

\* runBootSequence returns
BootReturn(st, result) == [st EXCEPT !.boot = [@ EXCEPT !.pc = "done", !.result = result]]

\* the install checkpoint's action throws: exitCode !== 0
InstallFailedNever(exitCode) == FALSE

InstallFailed(exitCode) == exitCode # 0

\* runBootSequence after a checkpoint returned true (it joins boot.passed): the next
\* phase up to its first await
NextPhase(returned) ==
    LET st == [returned EXCEPT !.boot = [@ EXCEPT !.passed = @ \cup {returned.boot.checkpoint}]]
    IN
    IF st.boot.checkpoint = "mount"
    THEN StartShellCommand([st EXCEPT !.boot = [@ EXCEPT !.checkpoint = "npm-install"]],
                           CommandParts(NpmInstall), FALSE)
    ELSE IF st.boot.checkpoint = "npm-install"
    THEN [st EXCEPT !.ops = Call(@, 0, SpawnCall(<<<<"n", "p", "m">>, <<"r", "u", "n">>, <<"d", "e", "v">>>>, 0, TRUE)),
                    !.boot = [@ EXCEPT !.checkpoint = "dev-server", !.pc = "serveSpawn",
                                       !.proc = NewHandle(st.ops, 0)]]
    ELSE BootReturn(st, TRUE)

\* attemptRecovery stops at a suggestion that requires approval
RequiresApprovalNever(suggestion) == FALSE

RequiresApproval(suggestion) == suggestion.requiresApproval

\* attemptRecovery stops at the retry ceiling
CeilingReachedNever(count) == FALSE

CeilingReached(count) == count >= MaxRetries

\* runCheckpoint's catch block with attemptRecovery, up to the next await or the return;
\* boot.caught keeps the message handed to attemptRecovery
CheckpointCatch(st, errorMsg) ==
    LET warned == [st EXCEPT !.warnings = Warn(@, "checkpoint-failed"),
                             !.boot = [@ EXCEPT !.caught = errorMsg]]
        suggestion == SuggestFix(Detect(errorMsg), st.files)
        counted == [warned EXCEPT !.retryCount = @ + 1]
        idx == FindIndex(st.files, suggestion.file)
    IN  IF suggestion.action = "none" THEN BootReturn(warned, FALSE)
        ELSE IF RequiresApproval(suggestion) THEN BootReturn(warned, FALSE)
        ELSE IF CeilingReached(st.retryCount) THEN BootReturn(warned, FALSE)
        ELSE IF /\ suggestion.action = "fix-syntax"
                /\ suggestion.file # NoFile
                /\ suggestion.pattern # "none"
                /\ idx # 0
                /\ Applied[suggestion.pattern, st.files[idx].content] # st.files[idx].content
        THEN StartWriteFile(
                 [counted EXCEPT !.files = [@ EXCEPT ![idx].content =
                                               Applied[suggestion.pattern, @]]],
                 suggestion.file)
        ELSE IF suggestion.action = "retry-with-flags" /\ suggestion.newCommand # <<>>
        THEN StartShellCommand(counted, CommandParts(suggestion.newCommand), TRUE)
        ELSE BootReturn(counted, FALSE)

BootUnchanged ==
    UNCHANGED <<tasks, abortControllers, signalAborted, isCleanedUp, hasFailedCriticalAction,
                startLog, parserVars, detectorVars, clientVars>>

\* runBootSequence up to its first await (webcontainer.mount in mountFiles)
RunBootSequence ==
    /\ LET id == actionIdCounter + 1
           created == CreateAction(actions, id, "file", <<"M", "o", "u", "n", "t", "i", "n", "g", " ", "p", "r", "o", "j", "e", "c", "t", " ", "f", "i", "l", "e", "s">>, NoPath)
       IN  BootApply([BootState EXCEPT
               !.retryCount = 0,
               !.counter = id,
               !.actions = UpdateStatus(created, id, "running", NoError),
               !.ops = Call(@, 0, [kind |-> "mount", what |-> <<>>, by |-> 0, dev |-> FALSE,
                                     state |-> "calling", code |-> NoCode, output |-> <<>>,
                                     content |-> <<>>]),
               !.boot = [@ EXCEPT !.pc = "mount", !.checkpoint = "mount", !.rec = id,
                                  !.proc = NewHandle(ops, 0), !.retry = FALSE,
                                  !.result = FALSE, !.passed = {}, !.caught = NoError,
                                  !.run = @ + 1]])
    /\ BootUnchanged
    /\ UNCHANGED nodeModules

\* the first call of runBootSequence
BootStart ==
    /\ boot.pc = "idle"
    /\ RunBootSequence

\* runBootSequence called again after an earlier call, which used up its retries, has
\* returned
Reboot ==
    /\ boot.pc = "done"
    /\ boot.run < MaxBoots
    /\ retryCount = MaxRetries
    /\ RunBootSequence

\* webcontainer.mount resolved (error = NoError) or threw
MountDone(error) ==
    /\ boot.pc = "mount"
    /\ LET st == BootState
           ok == error = NoError
           after == [st EXCEPT
                       !.ops = [@ EXCEPT ![boot.proc].state = IF ok THEN "written" ELSE "threw"],
                       !.actions = UpdateStatus(@, boot.rec, IF ok THEN "complete" ELSE "failed", error)]
       IN  BootApply(IF ok THEN NextPhase(after) ELSE CheckpointCatch(after, error))
    /\ BootUnchanged
    /\ UNCHANGED nodeModules

\* runShellCommand: webcontainer.spawn resolved or threw
BootSpawned(error) ==
    /\ boot.pc = "cmdSpawn"
    /\ LET st == BootState
           threw == [st EXCEPT !.ops = [@ EXCEPT ![boot.proc].state = "threw"],
                               !.actions = UpdateStatus(@, boot.rec, "failed", error)]
       IN  BootApply(
             IF error = NoError
             THEN [st EXCEPT !.ops = [@ EXCEPT ![boot.proc].state = "alive"],
                             !.boot = [@ EXCEPT !.pc = "cmdWait"]]
             ELSE IF boot.retry
             THEN BootReturn([threw EXCEPT !.warnings = Warn(@, "retry-failed")], FALSE)
             ELSE CheckpointCatch(threw, error))
    /\ BootUnchanged
    /\ UNCHANGED nodeModules

\* a retry that counts as a success whatever its exit code
RetrySucceededAlways(exitCode) == TRUE

\* runCheckpoint after the flagged retry: return exitCode === 0
RetrySucceeded(exitCode) == exitCode = 0

\* runShellCommand: process.exit resolved with the exit code, after the process wrote
\* output, which went to callbacks.onOutput
BootExit(code, output) ==
    /\ boot.pc = "cmdWait"
    /\ ops[boot.proc].state = "alive"
    /\ nodeModules' = (nodeModules \/ (code = 0 /\ IsInstallCommand(ops[boot.proc].what)))
    /\ LET st == BootState
           exited == [st EXCEPT !.ops = [@ EXCEPT ![boot.proc].state = "exited",
                                                          ![boot.proc].code = code,
                                                          ![boot.proc].output = output]]
           after == IF code = 0
                    THEN [exited EXCEPT !.actions = UpdateStatus(@, boot.rec, "complete", NoError)]
                    ELSE [exited EXCEPT
                            !.warnings = Warn(@, "exit-code"),
                            !.actions = UpdateStatus(@, boot.rec, "failed", <<"E", "x", "i", "t", " ", "c", "o", "d", "e", ":", " ">> \o Digit(code))]
       IN  BootApply(
             IF boot.retry
             THEN (IF RetrySucceeded(code) THEN NextPhase(after) ELSE BootReturn(after, FALSE))
             ELSE IF ~InstallFailed(code) THEN NextPhase(after)
             ELSE CheckpointCatch(after, InstallFailedWithCode \o Digit(code)))
    /\ BootUnchanged

\* writeFile in attemptRecovery: fs.mkdir settled, fs.writeFile is called
RecoverMkdirDone ==
    /\ boot.pc = "recoverMkdir"
    /\ BootApply([BootState EXCEPT
            !.ops = Call(@, 0, WriteCall(FinalPath(boot.path), 0, Guarded[<<boot.path, files[FindIndex(files, boot.path)].content>>])),
            !.boot = [@ EXCEPT !.pc = "recoverWrite", !.proc = NewHandle(ops, 0)]])
    /\ BootUnchanged
    /\ UNCHANGED nodeModules

\* a recovery that runs the install command again after the rewrite
RerunAfterFix(st) == StartShellCommand(st, CommandParts(NpmInstall), FALSE)

\* runCheckpoint after a syntax fix: the file is rewritten, return true to proceed
ProceedAfterFix(st) == NextPhase(st)

\* writeFile in attemptRecovery: fs.writeFile resolved or threw
RecoverWriteDone(error) ==
    /\ boot.pc = "recoverWrite"
    /\ LET st == BootState
           ok == error = NoError
           after == [st EXCEPT
                       !.ops = [@ EXCEPT ![boot.proc].state = IF ok THEN "written" ELSE "threw"],
                       !.actions = UpdateStatus(@, boot.rec, IF ok THEN "complete" ELSE "failed", error)]
       IN  BootApply(IF ok THEN ProceedAfterFix(after) ELSE BootReturn(after, FALSE))
    /\ BootUnchanged
    /\ UNCHANGED nodeModules

\* the serve phase: webcontainer.spawn('npm', ['run', 'dev']) resolved or threw
ServeSpawned(error) ==
    /\ boot.pc = "serveSpawn"
    /\ LET st == BootState
       IN  BootApply(
             IF error = NoError
             THEN NextPhase([st EXCEPT !.ops = [@ EXCEPT ![boot.proc].state = "alive"],
                                       !.dev = boot.proc])
             ELSE CheckpointCatch([st EXCEPT !.ops = [@ EXCEPT ![boot.proc].state = "threw"]], error))
    /\ BootUnchanged
    /\ UNCHANGED nodeModules

(***************************************************************************)
(* The caller of parse: one call per chunk of the response                 *)
(***************************************************************************)
\* parse(id, the next n characters of the response)
\* the spans of one parse call as positions of the whole response: the input of the
\* call begins where the text retained by the call before begins
Shifted(spans, base) == [k \in 1..Len(spans) |-> <<base + spans[k][1], base + spans[k][2]>>]

RECURSIVE Joined(_, _)
\* the spans with more spans added, a span that begins where the last one ends
\* continuing it
Joined(spans, more) ==
    IF more = <<>> THEN spans
    ELSE IF spans # <<>> /\ spans[Len(spans)][2] = Head(more)[1]
    THEN Joined([spans EXCEPT ![Len(spans)][2] = Head(more)[2]], Tail(more))
    ELSE Joined(Append(spans, Head(more)), Tail(more))

\* how much of the response has been handed to parse
Consumed(id) == Len(source[id]) - Len(pending[id])

Feed(id, n, now) ==
    /\ n \in 1..Len(pending[id])
    /\ LET state == IF id \in DOMAIN states THEN states[id] ELSE FreshState
           r == Parse(state, SubSeq(pending[id], 1, n), now)
       IN  /\ states' = [x \in DOMAIN states \cup {id} |-> IF x = id THEN r.state ELSE states[x]]
           /\ emitted' = [emitted EXCEPT ![id].events = @ \o r.events,
                                         ![id].output = @ \o r.output,
                                         ![id].stream = @ \o r.stream,
                                         ![id].spans = Joined(@, Shifted(r.spans, Consumed(id) - Len(state.buffer))),
                                         ![id].carried = @ \/ \E k \in 1..Len(r.spans) :
                                                                  r.spans[k][1] < Len(state.buffer)]
    /\ pending' = [pending EXCEPT ![id] = SubSeq(@, n + 1, Len(@))]
    /\ discarded' = discarded \ {id}
    /\ UNCHANGED <<source, execVars, bootVars, detectorVars, clientVars>>

\* a reset that forgets every stream whatever id it is given
DeleteEvery(map, messageId) == [x \in {} |-> FreshState]

\* this.#states.delete(messageId)
Delete(map, messageId) == [x \in DOMAIN map \ {messageId} |-> map[x]]

\* reset(messageId)
Reset(messageId) ==
    /\ states' = Delete(states, messageId)
    /\ discarded' = discarded \cup {messageId}
    /\ UNCHANGED <<source, pending, emitted, execVars, bootVars, detectorVars, clientVars>>

\* reset(): this.#states.clear()
ResetAll ==
    /\ states' = [x \in {} |-> FreshState]
    /\ discarded' = DOMAIN source
    /\ UNCHANGED <<source, pending, emitted, execVars, bootVars, detectorVars, clientVars>>

(***************************************************************************)
(* Specifications                                                          *)
(***************************************************************************)
\* a step of the queued callback that a dev-server action can take
DevServerStep ==
    \/ \E k \in 1..Len(tasks) : Dequeue(k)
    \/ \E k \in 1..Len(tasks) : Resume(k)
    \/ \E k \in 1..Len(tasks) : ReaddirDone(k)
    \/ \E k \in 1..Len(tasks), e \in SandboxErrors \cup {NoError} : InstallSpawned(k, e)
    \/ \E k \in 1..Len(tasks), c \in ExitCodes : InstallExit(k, c)
    \/ \E k \in 1..Len(tasks), e \in SandboxErrors \cup {NoError} : CommandSpawned(k, e)
    \/ \E k \in 1..Len(tasks) : Timeout(k)
    \/ \E k \in 1..Len(tasks) : Rejected(k)

\* a step of the queued callback or of a sandbox call it awaits
QueueStep ==
    \/ DevServerStep
    \/ \E k \in 1..Len(tasks) : MkdirDone(k)
    \/ \E k \in 1..Len(tasks), e \in SandboxErrors \cup {NoError} : WriteDone(k, e)
    \/ \E k \in 1..Len(tasks), c \in ExitCodes : CommandExit(k, c)

\* a call of abortAction, abortAll or cleanup
ControlStep ==
    \/ \E id \in 1..actionIdCounter : AbortAction(id)
    \/ AbortAll
    \/ Cleanup

BootStep ==
    \/ BootStart
    \/ \E e \in BootErrors \cup {NoError} : MountDone(e)
    \/ \E e \in BootErrors \cup {NoError} : BootSpawned(e)
    \/ \E c \in ExitCodes : \E output \in Outputs(c) : BootExit(c, output)
    \/ RecoverMkdirDone
    \/ \E e \in SandboxErrors \cup {NoError} : RecoverWriteDone(e)
    \/ \E e \in BootErrors \cup {NoError} : ServeSpawned(e)

\* the executor driven through queueAction, abortAction, abortAll and cleanup
Next ==
    \/ \E a \in QueuedActions : Len(tasks) + Rejections < MaxActions /\ QueueAction(a)
    \/ QueueStep
    \/ ControlStep

Spec == Init /\ [][Next]_vars

\* one runBootSequence call beside a queue of dev-server actions, with cleanup
BootNext ==
    \/ \E a \in BootQueuedActions : Len(tasks) + Rejections < MaxActions - 1 /\ QueueAction(a)
    \/ DevServerStep
    \/ Cleanup
    \/ BootStep

BootSpec == Init /\ [][BootNext]_vars

\* a response streamed through parse under every chunking
ParserNext ==
    \E id \in StreamIds : \E n \in 1..Len(pending[id]), now \in Times : Feed(id, n, now)

ParserSpec == ParserInit /\ [][ParserNext]_vars

\* two responses are about to be streamed side by side
ResetInit ==
    /\ ExecInit
    /\ states = [id \in {} |-> FreshState]
    /\ source \in [ResetStreamIds -> ResetInputs]
    /\ pending = source
    /\ emitted = [id \in ResetStreamIds |-> [events |-> <<>>, output |-> <<>>, stream |-> <<>>, spans |-> <<>>, carried |-> FALSE]]
    /\ discarded = {}
    /\ errorText = NoError
    /\ errorType = "none"
    /\ suggested = NotSuggested
    /\ ClientIdle

\* two responses streamed in chunks, with reset calls in between
ResetNext ==
    \/ \E id \in ResetStreamIds, c \in ResetChunks, now \in Times :
            Feed(id, IF c < Len(pending[id]) THEN c ELSE Len(pending[id]), now)
    \/ \E id \in ResetStreamIds : Reset(id)
    \/ ResetAll

ResetSpec == ResetInit /\ [][ResetNext]_vars

\* ErrorDetector.detectErrorType(e)
Classify(e) ==
    /\ errorText' = e
    /\ errorType' = Classified[e].type
    /\ UNCHANGED <<execVars, bootVars, parserVars, suggested, clientVars>>

\* error texts classified one after another
DetectorNext == \E e \in ErrorTexts : Classify(e)

DetectorSpec == Init /\ [][DetectorNext]_vars

\* boot sequences run one after another on one ActionRunner
RebootNext == BootStep \/ Reboot

RebootSpec == Init /\ [][RebootNext]_vars

(***************************************************************************)
(* Properties                                                              *)
(***************************************************************************)
\* the sandbox calls made for the action with this id
OpsBy(id) == {h \in DOMAIN ops : ops[h].by = id}

\* the position in the queue of the action with this id
TaskOf(id) == CHOOSE k \in 1..Len(tasks) : tasks[k].id = id

\* task k carries a dev-server command
DevTask(k) == tasks[k].action.type = "shell" /\ DevCommand(tasks[k].action)

\* the processes started for dev-server commands
DevProcesses == {h \in DOMAIN ops : ops[h].dev /\ ops[h].state \in {"alive", "killed"}}

\* an install command has exited with code 0, or node_modules exists
InstallCompleted ==
    \/ nodeModules
    \/ \E h \in DOMAIN ops :
          ops[h].kind = "spawn" /\ IsInstallCommand(ops[h].what) /\ ops[h].code = 0

\* the prerequisite install of task k exited with a non-zero code
PrerequisiteFailedFor(k) ==
    \E h \in OpsBy(tasks[k].id) :
        ops[h].kind = "spawn" /\ ~ops[h].dev /\ ops[h].code \notin {NoCode, 0}

\* a queued dev-server action whose prerequisite install failed spawns no dev server and fails
FailedPrerequisiteStops ==
    \A k \in 1..Len(tasks) :
        (DevTask(k) /\ PrerequisiteFailedFor(k))
        => /\ \A h \in OpsBy(tasks[k].id) : ~ops[h].dev
           /\ (tasks[k].pc = "done" /\ tasks[k].id \in DOMAIN actions)
              => actions[tasks[k].id].status = "failed"

\* C1: while the (N+1)-th enqueued action is running or has made a sandbox call, the
\* N-th has a terminal status, no sandbox call of it is still unresolved and no
\* process of it other than a started dev server is still alive.
C1_OneAtATime ==
    \A k \in 2..Len(tasks) :
        LET id == tasks[k].id
            prev == tasks[k - 1].id
        IN  ((id \in DOMAIN actions /\ actions[id].status = "running") \/ OpsBy(id) # {})
            => /\ prev \in DOMAIN actions => actions[prev].status \in Terminal
               /\ \A h \in OpsBy(prev) :
                     /\ ops[h].state # "calling"
                     /\ ops[h].state = "alive" => ops[h].dev

C1_Witness ==
    \E k \in 2..Len(tasks) :
        /\ tasks[k].id \in DOMAIN actions
        /\ actions[tasks[k].id].status = "running"
        /\ OpsBy(tasks[k].id) # {}
        /\ OpsBy(tasks[k - 1].id) # {}
        /\ tasks[k - 1].id \in DOMAIN actions
        /\ actions[tasks[k - 1].id].status \in Terminal

\* C2: onActionStart is called for the actions in the order of their queueAction
\* calls, and an action is started only when every action enqueued before it has
\* been taken from the queue.
C2_StartOrder ==
    /\ \A i, j \in 1..Len(startLog) : i < j => TaskOf(startLog[i]) < TaskOf(startLog[j])
    /\ \A k \in 1..Len(tasks) :
          (\E i \in 1..Len(startLog) : startLog[i] = tasks[k].id)
          => \A j \in 1..(k - 1) : tasks[j].pc # "queued"

C2_Witness ==
    /\ Len(startLog) >= 2
    /\ TaskOf(startLog[1]) = 1
    /\ TaskOf(startLog[2]) = 2

\* C3: when a whole response has been fed to parse in chunks, the artifact-open,
\* action-open, action-complete and artifact-close notifications (kind, type, path,
\* content) and the concatenated returned text equal those of one parse call on
\* the whole response.
C3_ChunkInvariance ==
    \A id \in StreamIds :
        pending[id] = <<>>
        => LET seen == emitted[id]
               whole == Whole[source[id]]
               View(e) == [kind |-> e.kind, type |-> e.type, path |-> e.path, content |-> e.content]
           IN  /\ seen.output = whole.output
               /\ Len(seen.events) = Len(whole.events)
               /\ \A i \in 1..Len(seen.events) : View(seen.events[i]) = View(whole.events[i])

C5_TerminalIsFinal ==
    [][\A id \in DOMAIN actions \cap DOMAIN actions' :
          /\ actions[id].status \in Terminal => actions'[id].status = actions[id].status
          /\ actions[id].status = "pending"
             => actions'[id].status \in {"pending", "running", "aborted"}
          /\ actions[id].status = "running"
             => actions'[id].status \in {"running"} \cup Terminal]_vars

\* C6: when a queued shell action that abortAction marked aborted while it was
\* running settles, none of its processes is alive and its status is aborted.
C6_AbortedNotFailed ==
    [][\A k \in 1..Len(tasks) :
          LET id == tasks[k].id
          IN  (/\ tasks[k].action.type = "shell"
               /\ tasks[k].pc \notin {"queued", "done"}
               /\ tasks'[k].pc = "done"
               /\ id \in DOMAIN actions
               /\ id \in DOMAIN actions'
               /\ actions[id].status = "aborted")
              => /\ actions'[id].status = "aborted"
                 /\ \A h \in DOMAIN ops' : ops'[h].by = id => ops'[h].state # "alive"]_vars

C8_ExactlyOneSpawn ==
    \A j, k \in 1..Len(tasks) :
        (/\ j < k
         /\ DevTask(j)
         /\ DevTask(k)
         /\ tasks[j].pc = "done"
         /\ tasks[k].pc = "done"
         /\ ~isCleanedUp
         /\ ~hasFailedCriticalAction
         /\ signalAborted \cap {tasks[j].id, tasks[k].id} = {})
        => /\ Cardinality({h \in DOMAIN ops : ops[h].dev}) = 1
           /\ OpsBy(tasks[k].id) = {}
           /\ actions[tasks[k].id].status = "complete"

\* C8 amended: at most one dev-server process is ever started for the queued actions,
\* and a dev-server action enqueued after one that started the dev server makes no
\* sandbox call and, unless it was aborted, ends complete.
C8_OneDevServer ==
    /\ Cardinality(DevProcesses) <= 1
    /\ \A j, k \in 1..Len(tasks) :
          (/\ j < k
           /\ DevTask(j)
           /\ DevTask(k)
           /\ OpsBy(tasks[j].id) \cap DevProcesses # {})
          => /\ OpsBy(tasks[k].id) = {}
             /\ (/\ tasks[k].pc = "done"
                 /\ tasks[k].id \in DOMAIN actions
                 /\ tasks[k].id \notin signalAborted
                 /\ actions[tasks[k].id].error # CriticalAbortMessage)
                => actions[tasks[k].id].status = "complete"

C8_Witness ==
    \E j, k \in 1..Len(tasks) :
        /\ j < k
        /\ DevTask(j)
        /\ DevTask(k)
        /\ \E h \in OpsBy(tasks[j].id) : ops[h].dev /\ ops[h].state = "alive"
        /\ tasks[k].pc = "done"
        /\ tasks[k].id \in DOMAIN actions
        /\ actions[tasks[k].id].status = "complete"
        /\ OpsBy(tasks[k].id) = {}

\* C9 as stated: whenever a dev-server spawn has been called, by a queued action or
\* by the boot sequence, an install command has exited with code 0 or node_modules
\* exists; and a queued dev-server action whose prerequisite install exited non-zero
\* spawns no dev server and fails.
C9_DevServerAfterInstall ==
    /\ (\E h \in DOMAIN ops : ops[h].dev) => InstallCompleted
    /\ FailedPrerequisiteStops

\* the boot sequence's call before call h was a recovery file write that succeeded,
\* made after the install command's spawn threw
RecoveredByRewrite(h) ==
    /\ h[2] >= 3
    /\ ops[<<0, h[2] - 1>>].kind = "write"
    /\ ops[<<0, h[2] - 1>>].state = "written"
    /\ ops[<<0, h[2] - 2>>].kind = "spawn"
    /\ ops[<<0, h[2] - 2>>].state = "threw"

\* C9 amended: a queued action's dev-server spawn is called only when an install
\* command has exited with code 0 or node_modules exists, and if its prerequisite
\* install exited non-zero it spawns no dev server and fails; the boot sequence's
\* dev-server spawn is called only when that holds or when the install step threw
\* and an unattended recovery then rewrote a file.
C9_DevServerAfterInstallOrRewrite ==
    /\ \A h \in DOMAIN ops :
          ops[h].dev => \/ InstallCompleted
                        \/ ops[h].by = 0 /\ RecoveredByRewrite(h)
    /\ FailedPrerequisiteStops

C9_Witness ==
    /\ \E k \in 1..Len(tasks) :
          /\ \E h \in OpsBy(tasks[k].id) : ops[h].dev /\ ops[h].state = "alive"
          /\ \E h \in OpsBy(tasks[k].id) : ~ops[h].dev /\ ops[h].code = 0
    /\ \E h \in OpsBy(0) : ops[h].dev /\ RecoveredByRewrite(h)

\* C10: once cleanup has run no record is created, no abort token is registered and
\* no callback is added to the queue, and a queueAction call adds one warning and
\* changes neither the action table nor the sandbox.
C10_RejectedAfterCleanup ==
    [][isCleanedUp
       => /\ DOMAIN actions' \subseteq DOMAIN actions
          /\ abortControllers' \subseteq abortControllers
          /\ Len(tasks') = Len(tasks)
          /\ \A a \in QueuedActions :
                QueueAction(a) => /\ warnings' = Warn(warnings, "cleaned-up")
                                  /\ actions' = actions
                                  /\ ops' = ops]_vars

C10_Witness ==
    /\ isCleanedUp
    /\ Rejections > 0
    /\ actions = <<>>
    /\ abortControllers = {}

\* every queued callback has returned
AllSettled == \A k \in 1..Len(tasks) : tasks[k].pc = "done"

\* C11: once cleanup has run and every queued callback has returned, no action that
\* was never started has made a sandbox call, no dev-server process is alive, the
\* tracked dev-server handle is empty and the action table is empty.
C11_CleanupReleases ==
    (isCleanedUp /\ AllSettled)
    => /\ \A k \in 1..Len(tasks) :
             (\A i \in 1..Len(startLog) : startLog[i] # tasks[k].id) => OpsBy(tasks[k].id) = {}
       /\ \A h \in DOMAIN ops : ops[h].dev => ops[h].state # "alive"
       /\ devServerProcess = NoProc
       /\ actions = <<>>

\* the content an action closed with the accumulated body raw is to carry: the body
\* between its first and last non-whitespace character, without the backslash in front
\* of each "${" and of each backtick, and one line feed after it for a file
ExpectedContent(raw, type) ==
    LET solid == {i \in 1..Len(raw) : raw[i] \notin WhiteSpace}
        trimmed == IF solid = {} THEN <<>> ELSE SubSeq(raw, MinOf(solid), MaxOf(solid))
        escaping(i) == /\ trimmed[i] = "\\"
                       /\ i < Len(trimmed)
                       /\ \/ trimmed[i + 1] = "U+0060"
                          \/ i + 2 <= Len(trimmed) /\ trimmed[i + 1] = "$" /\ trimmed[i + 2] = "{"
        kept == SelectSeq([i \in 1..Len(trimmed) |-> <<i, trimmed[i]>>], LAMBDA c : ~escaping(c[1]))
    IN  [i \in 1..Len(kept) |-> kept[i][2]] \o (IF type = FileType THEN <<"\n">> ELSE <<>>)

\* the action-complete notifications of a stream
Completed(id) == SelectSeq(emitted[id].events, LAMBDA e : e.kind = "action-complete")

\* C12: every action-complete notification carries the accumulated body trimmed of
\* leading and trailing whitespace, with each backslash-escaped "${" and backtick
\* unescaped, followed by exactly one line feed for type file and by none for shell.
C12_CompleteContent ==
    \A id \in StreamIds :
        \A n \in 1..Len(Completed(id)) :
            LET e == Completed(id)[n]
            IN  e.content = ExpectedContent(e.raw, e.type)

\* a file action has closed whose body, accumulated over more than one parse call, had
\* surrounding whitespace, escaped backticks and an escaped "${"
C12_Witness ==
    \E id \in StreamIds :
        \E n \in 1..Len(Completed(id)) :
            LET e == Completed(id)[n]
            IN  /\ e.type = FileType
                /\ e.raw = <<" ", "\\", "U+0060", "\\", "$", "{", "y", "}", "\\", "U+0060", " ">>
                /\ e.content = <<"U+0060", "$", "{", "y", "}", "U+0060", "\n">>
\* C13: after every parse call on a stream, the text and the action contents emitted
\* so far, in order, followed by the retained buffer and by the part of the response
\* not yet delivered, are the response itself.
C13_ByteConservation ==
    \A id \in StreamIds :
        id \in DOMAIN states
        => emitted[id].stream \o states[id].buffer \o pending[id] = source[id]
\* the priority order of the categories; missing-import and missing-dependency share a place
Priority ==
    [t \in ErrorTypes |->
        CASE t = "template-literal-escape-error" -> 1
          [] t = "npm-version-conflict" -> 2
          [] t = "peer-dependency-error" -> 3
          [] t = "syntax-error" -> 4
          [] t = "esm-cjs-conflict" -> 5
          [] t \in {"missing-import", "missing-dependency"} -> 6
          [] t = "circular-dependency" -> 7
          [] t = "css-syntax" -> 8
          [] t = "unknown" -> 9]

\* C14: detectErrorType returns one category, unknown for a text with no keyword and
\* otherwise the category that is first, in the order template-literal-escape-error,
\* npm-version-conflict, peer-dependency-error, syntax-error, esm-cjs-conflict,
\* missing-import/missing-dependency, circular-dependency, css-syntax, among those
\* whose keywords the text has.
C14_FirstMatchWins ==
    errorType # "none"
    => LET matching == Classified[errorText].matching
       IN  /\ errorType \in ErrorTypes
           /\ matching = {} => errorType = "unknown"
           /\ matching # {} => /\ errorType \in matching
                               /\ \A t \in matching : Priority[errorType] <= Priority[t]
\* the npm install processes of the install checkpoint that ended with exit code 1
\* after writing ERESOLVE to their output
EresolveInstalls ==
    {h \in OpsBy(0) : /\ ops[h].kind = "spawn"
                       /\ ops[h].what = CommandParts(NpmInstall)
                       /\ ops[h].code = 1
                       /\ Includes(ops[h].output, <<"E", "R", "E", "S", "O", "L", "V", "E">>)}

\* the command of the flagged retry, split as runCheckpoint splits it
FlaggedCommand ==
    CommandParts(NpmInstall \o <<" ", "-", "-", "l", "e", "g", "a", "c", "y", "-", "p", "e", "e", "r", "-", "d", "e", "p", "s">>)

\* the flagged retries runCheckpoint has run
FlaggedRetries ==
    {h \in OpsBy(0) : /\ ops[h].kind = "spawn"
                       /\ ops[h].what = FlaggedCommand}

\* C15: once the install command of the boot sequence has ended with exit code 1 and
\* ERESOLVE in its output, npm install --legacy-peer-deps has been run, and when that
\* retry has ended with exit code 0 the boot sequence has gone on to spawn the dev
\* server and, once it has returned, has returned true.
C15_EresolveRecovered ==
    EresolveInstalls # {}
    => /\ FlaggedRetries # {}
       /\ \A h \in FlaggedRetries :
              ops[h].code = 0
              => /\ \E d \in OpsBy(0) : ops[d].dev
                 /\ boot.pc = "done" => boot.result
\* the npm install processes the install checkpoint's action has started
BootInstalls == {h \in OpsBy(0) : ops[h].kind = "spawn" /\ ops[h].what = CommandParts(NpmInstall)}

\* the dev-server spawns of the serve checkpoint
BootServes == {h \in OpsBy(0) : ops[h].dev}

\* C16: the boot sequence starts npm install only after the mount checkpoint returned
\* true and spawns the dev server only after the install checkpoint returned true; an
\* npm install that ended with a non-zero exit code leaves the install checkpoint
\* failed; the serve checkpoint has returned true as soon as the spawn resolved; and
\* the sequence returns true exactly when the three checkpoints returned true.
C16_PhaseOrder ==
    /\ BootInstalls # {} => "mount" \in boot.passed
    /\ BootServes # {} => {"mount", "npm-install"} \subseteq boot.passed
    /\ (\E h \in BootInstalls : ops[h].code \notin {NoCode, 0})
       => /\ "npm-install" \notin boot.passed
          /\ BootServes = {}
          /\ boot.pc = "done" /\ ~boot.result
    /\ \A h \in BootServes : ops[h].state \notin {"calling", "threw"}
                              => "dev-server" \in boot.passed /\ boot.pc = "done"
    /\ boot.pc = "done"
       => boot.result = (boot.passed = {"mount", "npm-install", "dev-server"})
    /\ boot.result \in BOOLEAN

\* the boot sequence has returned true after mount resolved, npm install ended with
\* exit code 0 and the dev server was spawned
C16_Witness ==
    /\ boot.pc = "done"
    /\ boot.result
    /\ \E h \in BootInstalls : ops[h].code = 0
    /\ \E h \in BootServes : ops[h].state = "alive"
    /\ \E h \in OpsBy(0) : ops[h].kind = "mount" /\ ops[h].state = "written"
\* the step is runCheckpoint's catch block: it sends the checkpoint warning
CheckpointCaught == warnings'["checkpoint-failed"] # warnings["checkpoint-failed"]

\* C17: when a checkpoint of the boot sequence fails and suggestFix has no suggestion
\* for the message or one that requires approval, the boot sequence returns false in
\* that step, with the file set and the retry counter as they were and no sandbox call
\* made; and once the boot sequence has returned it makes no sandbox call.
C17_NoFixNoRetry ==
    [][/\ CheckpointCaught
          => LET suggestion == SuggestFix(Detect(boot'.caught), files)
             IN  (suggestion.action = "none" \/ suggestion.requiresApproval)
                 => /\ boot'.pc = "done"
                    /\ ~boot'.result
                    /\ boot'.checkpoint = boot.checkpoint
                    /\ files' = files
                    /\ retryCount' = retryCount
                    /\ DOMAIN ops' = DOMAIN ops
       /\ boot.pc = "done" => boot' = boot /\ files' = files /\ OpsBy(0)' = OpsBy(0)]_vars

\* the install checkpoint has failed with a message whose suggestion requires approval,
\* and the boot sequence has returned false with the retry counter untouched
C17_Witness ==
    /\ boot.pc = "done"
    /\ ~boot.result
    /\ boot.checkpoint = "npm-install"
    /\ boot.caught = <<"S", "y", "n", "t", "a", "x", "E", "r", "r", "o", "r", ":", " ", "U", "n", "e", "x", "p", "e", "c", "t", "e", "d", " ", "t", "o", "k", "e", "n">>
    /\ SuggestFix(Detect(boot.caught), files).requiresApproval
    /\ retryCount = 0
    /\ files = ProjectFiles
\* the automatic fixes attemptRecovery has applied: files rewritten and flagged retries
AppliedFixes == {h \in OpsBy(0) : ops[h].kind = "write"} \cup FlaggedRetries

\* C18: the retry counter never exceeds maxRetries and only ever goes up by one or back
\* to zero; a checkpoint failure met with the counter at maxRetries makes the boot
\* sequence return false with the file set, the sandbox calls and the counter as they
\* were; and every start of a boot sequence sets the counter to zero.
C18_RetryCeiling ==
    [][/\ retryCount' <= MaxRetries
       /\ retryCount' \in {retryCount, retryCount + 1, 0}
       /\ (CheckpointCaught /\ retryCount >= MaxRetries)
          => /\ boot'.pc = "done"
             /\ ~boot'.result
             /\ files' = files
             /\ DOMAIN ops' = DOMAIN ops
             /\ retryCount' = retryCount
       /\ boot'.run # boot.run => retryCount' = 0]_vars

\* a second boot sequence has used its two retries after the first had used its own,
\* and has then been refused a third
C18_Witness ==
    /\ boot.run = 2
    /\ retryCount = MaxRetries
    /\ Cardinality(AppliedFixes) = 2 * MaxRetries
    /\ warnings["checkpoint-failed"] = 2 * MaxRetries + 2
    /\ boot.pc = "done"
    /\ ~boot.result
    /\ boot.checkpoint = "dev-server"
\* in this step the file write or the command of the k-th queued action fails: one of
\* its sandbox calls is rejected, or the npm install run ahead of its dev server ends
\* with a non-zero exit code
FailsIn(k) ==
    \E h \in OpsBy(tasks[k].id) :
        /\ ops[h].state \in {"calling", "alive"}
        /\ \/ ops'[h].state = "threw"
           \/ /\ ops'[h].state = "exited"
              /\ ops'[h].code # 0
              /\ IsInstallCommand(ops[h].what)
              /\ DevCommand(tasks[k].action)

\* every action taken from the queue was started, unless the critical latch was set
\* or its token aborted
NotSkipped ==
    \A k \in 1..Len(tasks) :
        (tasks[k].pc # "queued" /\ \A i \in 1..Len(startLog) : startLog[i] # tasks[k].id)
        => hasFailedCriticalAction \/ tasks[k].id \in signalAborted

TimerFires(k) ==
    /\ tasks[k].pc \in {"wait", "waitInstall"}
    /\ tasks'[k].pc = "done"
    /\ ops[tasks[k].proc].state = "alive"
    /\ ops'[tasks[k].proc].state = "killed"

\* the record of the k-th queued action ends this step failed with a timeout error
TimeoutRecorded(k) ==
    /\ tasks[k].id \in DOMAIN actions'
    /\ actions'[tasks[k].id].status = "failed"
    /\ Includes(actions'[tasks[k].id].error, <<"C", "o", "m", "m", "a", "n", "d", " ", "t", "i", "m", "e", "o", "u", "t", ":", " ">>)
    /\ actions'[tasks[k].id] # actions[tasks[k].id]

\* a dev-server process stops being alive only in the step of cleanup
DevServerOutlivesTimers ==
    \A h \in DOMAIN ops :
        (ops[h].dev /\ ops[h].state = "alive" /\ ops'[h].state # "alive")
        => ~isCleanedUp /\ isCleanedUp'

\* C20: when the timer of a queued command that is no dev-server command fires, the
\* process is killed and the action ends failed with the error Command timeout: and
\* the command; no action of a dev-server command ends failed with a timeout error,
\* and no dev-server process is ended by a timer.
C20_TimeoutEnforced ==
    [][/\ \A k \in 1..Len(tasks) :
             /\ (TimerFires(k) /\ ~DevCommand(tasks[k].action) /\ tasks[k].id \in DOMAIN actions')
                => /\ actions'[tasks[k].id].status = "failed"
                   /\ actions'[tasks[k].id].error
                         = <<"C", "o", "m", "m", "a", "n", "d", " ", "t", "i", "m", "e", "o", "u", "t", ":", " ">> \o Join(PartsOf(tasks[k].action), <<" ">>)
             /\ DevCommand(tasks[k].action) => ~TimerFires(k) /\ ~TimeoutRecorded(k)
             /\ TimeoutRecorded(k) => TimerFires(k)
       /\ DevServerOutlivesTimers]_vars

\* C20 with the install run ahead of a dev-server command under its own timer: a timer
\* only ever ends a process that is no dev-server process; for a dev-server command it
\* can only be the timer of that install, and the action then ends failed with
\* Dependency installation failed: Command timeout: npm install.
C20_TimeoutEnforcedOnProcesses ==
    [][/\ \A k \in 1..Len(tasks) :
             /\ (TimerFires(k) /\ ~DevCommand(tasks[k].action) /\ tasks[k].id \in DOMAIN actions')
                => /\ actions'[tasks[k].id].status = "failed"
                   /\ actions'[tasks[k].id].error
                         = <<"C", "o", "m", "m", "a", "n", "d", " ", "t", "i", "m", "e", "o", "u", "t", ":", " ">> \o Join(PartsOf(tasks[k].action), <<" ">>)
             /\ TimerFires(k) => ~ops[tasks[k].proc].dev
             /\ (TimerFires(k) /\ DevCommand(tasks[k].action))
                => /\ tasks[k].pc = "waitInstall"
                   /\ IsInstallCommand(ops[tasks[k].proc].what)
                   /\ tasks[k].id \in DOMAIN actions'
                      => /\ actions'[tasks[k].id].status = "failed"
                         /\ actions'[tasks[k].id].error
                               = DependencyFailed \o <<"C", "o", "m", "m", "a", "n", "d", " ", "t", "i", "m", "e", "o", "u", "t", ":", " ">> \o NpmInstall
             /\ TimeoutRecorded(k) => TimerFires(k)
       /\ DevServerOutlivesTimers]_vars

\* a queued npm install has timed out: its process is killed and its record failed with
\* the timeout error, while a dev server started by an earlier action is still alive
C20_Witness ==
    /\ \E k \in 1..Len(tasks) :
          /\ tasks[k].pc = "done"
          /\ ~DevCommand(tasks[k].action)
          /\ tasks[k].id \in DOMAIN actions
          /\ actions[tasks[k].id].status = "failed"
          /\ actions[tasks[k].id].error = <<"C", "o", "m", "m", "a", "n", "d", " ", "t", "i", "m", "e", "o", "u", "t", ":", " ">> \o NpmInstall
          /\ \E h \in OpsBy(tasks[k].id) : ops[h].state = "killed"
    /\ \E h \in DOMAIN ops : ops[h].dev /\ ops[h].state = "alive"
\* the text parse was handed for this stream in this step
ChunkParsed(id) == SubSeq(pending[id], 1, Len(pending[id]) - Len(pending'[id]))

\* this step is a parse call for the stream that starts from the fresh initial state
ParsedFromFresh(id) ==
    \E now \in Times :
        LET r == Parse(FreshState, ChunkParsed(id), now)
        IN  /\ id \in DOMAIN states'
            /\ states'[id] = r.state
            /\ emitted'[id].events = emitted[id].events \o r.events
            /\ emitted'[id].output = emitted[id].output \o r.output

HasAttribute(response, name) == Includes(response, <<" ">> \o name \o <<"=">>)

\* the callbacks made for a tag: they carry the artifact the tag belongs to
TagKinds == {"artifact-open", "artifact-close", "action-open", "action-complete"}

\* C22: the callbacks made for a response whose tags carry no type attribute report
\* actions of type file, for one whose tags carry no id attribute a generated artifact
\* id, and for one whose tags carry no title attribute the placeholder title: attributes
\* of other names change nothing
C22_DefaultsForMissingAttributes ==
    \A id \in DOMAIN source : \A k \in 1..Len(emitted[id].events) :
        LET e == emitted[id].events[k]
        IN  /\ (e.kind \in {"action-open", "action-complete"}
                    /\ ~HasAttribute(source[id], <<"t", "y", "p", "e">>))
                => e.type = FileType
            /\ (e.kind \in TagKinds /\ ~HasAttribute(source[id], <<"i", "d">>))
                => e.artifactId \in {<<"artifact-", now>> : now \in Times}
            /\ (e.kind \in TagKinds /\ ~HasAttribute(source[id], <<"t", "i", "t", "l", "e">>))
                => e.title = <<"U", "n", "t", "i", "t", "l", "e", "d">>
\* C23: an Action Record carries an error only when its status is failed
C23_ErrorOnlyIfFailed ==
    \A id \in DOMAIN actions : actions[id].error # NoError => actions[id].status = "failed"
\* C24: for a queued shell action waiting for its own process, no dev server: when the
\* process exits first the action ends complete, when the timer fires first it ends
\* failed, when the abort comes first it ends aborted; and once the callback has
\* returned no later signal changes the record or sets the critical latch
C24_FirstSignalWins ==
    [][\A k \in 1..Len(tasks) :
          LET id == tasks[k].id
              kept == id \in DOMAIN actions /\ id \in DOMAIN actions'
          IN  /\ (tasks[k].pc = "wait" /\ kept /\ ops'[tasks[k].proc].state = "exited")
                 => actions'[id].status = "complete"
              /\ (tasks[k].pc = "wait" /\ kept /\ TimerFires(k))
                 => actions'[id].status = "failed"
              /\ (tasks[k].pc = "aborting" /\ kept /\ tasks'[k].pc = "done"
                    /\ tasks[k].error = OperationAborted)
                 => /\ actions'[id].status = "aborted"
                    /\ hasFailedCriticalAction' = hasFailedCriticalAction
              /\ (tasks[k].pc = "done" /\ kept)
                 => /\ actions'[id] = actions[id]
                    /\ (hasFailedCriticalAction' # hasFailedCriticalAction
                           => \E j \in 1..Len(tasks) : j # k /\ tasks[j].pc # "done")]_vars
\* C25: when the process of a queued npm install action exits with a code that is not 0
\* the action ends failed and the critical latch is set; and whenever the process of a
\* queued shell action exits and the action ends complete, the exit code was 0
C25_NonZeroExitFails ==
    [][\A k \in 1..Len(tasks) :
          LET id == tasks[k].id
              p == tasks[k].proc
          IN  (/\ tasks[k].pc = "wait"
               /\ id \in DOMAIN actions
               /\ id \in DOMAIN actions'
               /\ ops'[p].state = "exited")
              => /\ actions'[id].status = "complete" => ops'[p].code = 0
                 /\ (IsInstallCommand(ops[p].what) /\ ops'[p].code # 0)
                    => /\ actions'[id].status = "failed"
                       /\ hasFailedCriticalAction']_vars
\* the sandbox call or the process, no dev server, is still awaited by its caller
InFlight(h) == ops[h].state = "calling" \/ (ops[h].state = "alive" /\ ~ops[h].dev)

\* C26: while runBootSequence is inside one of its phases (mount, install command,
\* dev-server spawn, recovery retry, recovery file write) no sandbox call or process of
\* a queued action of the same ActionRunner is in flight
C26_BootNeverOverlapsQueue ==
    boot.pc \notin {"idle", "done"}
    => \A h \in DOMAIN ops : ops[h].by # 0 => ~InFlight(h)
\* dev-server processes that were started and neither exited nor were killed
AliveDevServers == {h \in DOMAIN ops : ops[h].dev /\ ops[h].state = "alive"}

\* C27: at most one dev-server process started by the executor, by a queued action or
\* by runBootSequence, is alive, and a dev-server process that is alive is the one the
\* executor tracks
C27_OneDevServerAlive ==
    /\ Cardinality(AliveDevServers) <= 1
    /\ \A h \in AliveDevServers : devServerProcess = h
\* the flagged retry the checkpoint is waiting for settles in this step
RetrySettles == boot.retry /\ boot.pc \in {"cmdSpawn", "cmdWait"} /\ boot'.pc # boot.pc

\* C28: a checkpoint failure whose suggestion is a command-flag retry, within the retry
\* ceiling, starts the alternate command once and in the same step, and nothing else of
\* the boot sequence while it runs; the checkpoint has succeeded when the retry exits
\* with code 0, and when it exits with another code or its spawn throws the boot
\* sequence returns false without another sandbox call; no other step starts a retry
C28_FlaggedRetryOnce ==
    [][/\ CheckpointCaught
          => LET suggestion == SuggestFix(Detect(boot'.caught), files)
             IN  IF /\ suggestion.action = "retry-with-flags"
                    /\ ~suggestion.requiresApproval
                    /\ retryCount < MaxRetries
                 THEN /\ Cardinality(FlaggedRetries') = Cardinality(FlaggedRetries) + 1
                      /\ Cardinality(OpsBy(0)') = Cardinality(OpsBy(0)) + 1
                      /\ boot'.retry
                      /\ boot'.pc = "cmdSpawn"
                      /\ boot'.proc \in FlaggedRetries'
                      /\ ops'[boot'.proc].state = "calling"
                 ELSE FlaggedRetries' = FlaggedRetries
       /\ ~CheckpointCaught => FlaggedRetries' = FlaggedRetries
       /\ (boot.retry /\ boot.pc \in {"cmdSpawn", "cmdWait"} /\ ~RetrySettles)
          => OpsBy(0)' = OpsBy(0)
       /\ RetrySettles
          => IF ops'[boot.proc].state = "exited" /\ ops'[boot.proc].code = 0
             THEN boot.checkpoint \in boot'.passed
             ELSE \/ ops'[boot.proc].state = "alive" /\ boot'.pc = "cmdWait"
                  \/ /\ boot'.pc = "done"
                     /\ ~boot'.result
                     /\ boot.checkpoint \notin boot'.passed
                     /\ OpsBy(0)' = OpsBy(0)]_vars

\* the install checkpoint's flagged retry exited with code 0 and the boot sequence went
\* on to return true
C28_Witness ==
    /\ \E h \in FlaggedRetries : ops[h].state = "exited" /\ ops[h].code = 0
    /\ boot.checkpoint = "dev-server"
    /\ "npm-install" \in boot.passed
    /\ boot.pc = "done"
    /\ boot.result
\* attemptRecovery's rewrite of a file settles in this step with the write resolved
RewriteDone == boot.pc = "recoverWrite" /\ boot'.pc # "recoverWrite" /\ ops'[boot.proc].state = "written"

\* C29: when the file write of an unattended fix has resolved the checkpoint counts as
\* passed and the boot sequence is in its next phase in the same step, having started no
\* command of the failed checkpoint again: after the install checkpoint the only call
\* started is the dev-server spawn, whether or not an install command has exited 0
C29_RewriteProceeds ==
    [][RewriteDone
       => /\ boot.checkpoint \in boot'.passed
          /\ boot.checkpoint = "mount"
             => /\ boot'.checkpoint = "npm-install"
                /\ \A h \in OpsBy(0)' \ OpsBy(0) : ops'[h].kind = "spawn" /\ ops'[h].what = CommandParts(NpmInstall)
                /\ \A h \in OpsBy(0)' : ops'[h].kind = "mount" => h \in OpsBy(0)
          /\ boot.checkpoint = "npm-install"
             => /\ boot'.checkpoint = "dev-server"
                /\ boot'.pc = "serveSpawn"
                /\ Cardinality(OpsBy(0)' \ OpsBy(0)) = 1
                /\ \A h \in OpsBy(0)' \ OpsBy(0) : ops'[h].dev
          /\ boot.checkpoint = "dev-server"
             => /\ boot'.pc = "done"
                /\ boot'.result
                /\ OpsBy(0)' = OpsBy(0)]_vars

\* the serve phase has started after a rewrite recovered the install checkpoint, and no
\* install command of the boot sequence has exited with code 0
C29_Witness ==
    /\ boot.checkpoint = "dev-server"
    /\ \E h \in OpsBy(0) : ops[h].dev /\ RecoveredByRewrite(h)
    /\ \A h \in OpsBy(0) : ops[h].kind = "spawn" => ops[h].code # 0

\* the files of the project a fix-syntax suggestion can name, with the content the
\* substitution of the suggestion leaves
Corrected ==
    [path \in {AppTsx, PostcssConfig} |->
        IF path = AppTsx
        THEN <<"f", "r", "o", "m", " ", "'", ".", ".", "/", "u", "t", "i", "l", "s", "/", "c", "n", "'", " ", "$", "{", "b", "}">>
        ELSE <<"e", "x", "p", "o", "r", "t", " ", "d", "e", "f", "a", "u", "l", "t", " ", "{", "}">>]

\* the content of these files in the sandbox once writeFile has written the corrected
\* content: the import of src/App.tsx is rewritten on the way
CorrectedInSandbox ==
    [path \in {AppTsx, PostcssConfig} |->
        IF path = AppTsx
        THEN <<"f", "r", "o", "m", " ", "'", "@", "/", "u", "t", "i", "l", "s", "/", "c", "n", "'", " ", "$", "{", "b", "}">>
        ELSE Corrected[path]]

\* the steps of a pattern/replacement fix, with the content the sandbox is to receive:
\* the catch block replaces the entry of the named file, and of no other, when the
\* substitution changes it, and otherwise returns false without a call; the write that
\* follows names that file and carries the content; when it resolves the checkpoint has
\* passed (recovered = true) and when it throws the boot sequence returns false
FixApplied(written) ==
    /\ CheckpointCaught
       => LET suggestion == SuggestFix(Detect(boot'.caught), files)
              idx == FindIndex(files, suggestion.file)
          IN  IF /\ suggestion.action = "fix-syntax"
                 /\ ~suggestion.requiresApproval
                 /\ retryCount < MaxRetries
              THEN IF idx # 0 /\ files[idx].content # Corrected[files[idx].path]
                   THEN /\ files' = [files EXCEPT ![idx].content = Corrected[files[idx].path]]
                        /\ boot'.pc \in {"recoverMkdir", "recoverWrite"}
                        /\ boot'.path = suggestion.file
                   ELSE /\ files' = files
                        /\ boot'.pc = "done"
                        /\ ~boot'.result
                        /\ OpsBy(0)' = OpsBy(0)
              ELSE files' = files
    /\ ~CheckpointCaught => files' = files
    /\ \A h \in OpsBy(0)' \ OpsBy(0) :
          ops'[h].kind = "write"
          => /\ boot'.pc = "recoverWrite"
             /\ ops'[h].what = boot'.path
             /\ files'[FindIndex(files', boot'.path)].content = Corrected[boot'.path]
             /\ ops'[h].content = written[boot'.path]
    /\ (boot.pc = "recoverWrite" /\ boot'.pc # "recoverWrite")
       => IF ops'[boot.proc].state = "written"
          THEN boot.checkpoint \in boot'.passed
          ELSE boot'.pc = "done" /\ ~boot'.result

SuggestTypes == ErrorTypes \cup {"dev-server-hang"}

\* error.file: absent, a path of the file set, a suffix of one, a path of no file
SuggestErrorFiles == {NoFile, AppTsx, PostcssConfig, <<"A", "p", "p", ".", "t", "s", "x">>, <<"s", "r", "c", "/", "x", ".", "t", "s">>}

\* the ProjectFile[] handed to suggestFix
SuggestFileSets == {ProjectFiles, SubSeq(ProjectFiles, 1, 2), <<>>}

SuggestErrors == [type : SuggestTypes, file : SuggestErrorFiles]

\* AutoFix.suggestFix(error, files)
Suggest(error, fs) ==
    /\ suggested' = [error |-> error, files |-> fs, result |-> SuggestFix(error, fs)]
    /\ UNCHANGED <<execVars, bootVars, parserVars, errorText, errorType, clientVars>>

SuggestNext == \E error \in SuggestErrors, fs \in SuggestFileSets : Suggest(error, fs)

SuggestSpec == Init /\ [][SuggestNext]_vars

\* a suggested that needs no approval
Unapproved(r) == r # NoSuggestion /\ ~r.requiresApproval

\* a suggested that needs approval
Approved(r) == r # NoSuggestion /\ r.requiresApproval

\* some file of the set has the path, or a path ending with it
InFileSet(fs, filePath) == \E i \in 1..Len(fs) : fs[i].path = filePath \/ EndsWith(fs[i].path, filePath)

\* the dependency categories yield retry-with-flags with the legacy-peer-deps install command
DependencyRetry ==
    suggested.error.type \in {"npm-version-conflict", "peer-dependency-error"}
    => /\ Unapproved(suggested.result)
       /\ suggested.result.action = "retry-with-flags"
       /\ suggested.result.newCommand = NpmInstall \o <<" ", "-", "-", "l", "e", "g", "a", "c", "y", "-", "p", "e", "e", "r", "-", "d", "e", "p", "s">>

\* the categories whose suggestion does not depend on the file set
FileFreeMapping ==
    /\ DependencyRetry
    /\ suggested.error.type = "css-syntax" => Unapproved(suggested.result)
    /\ suggested.error.type \in {"syntax-error", "missing-import", "circular-dependency"}
       => Approved(suggested.result)
    /\ suggested.error.type \in {"unknown", "dev-server-hang", "missing-dependency"}
       => suggested.result = NoSuggestion

\* C31 as stated: suggestFix is a fixed mapping from category to suggestion;
\* template-literal-escape-error, npm-version-conflict, peer-dependency-error,
\* esm-cjs-conflict and css-syntax yield a suggested with requiresApproval false,
\* syntax-error, missing-import and circular-dependency one with requiresApproval
\* true, unknown none.
C31_FixedMapping ==
    /\ FileFreeMapping
    /\ suggested.error.type \in {"template-literal-escape-error", "esm-cjs-conflict"}
       => Unapproved(suggested.result)

\* C31 amended: the mapping is fixed for every category but two;
\* template-literal-escape-error yields its no-approval suggested exactly when the
\* error names a file found in the file set, esm-cjs-conflict exactly when the file
\* the error names (postcss.config.js when it names none) is found in the file set;
\* otherwise these two yield no suggested.
C31_MappingWhenFileFound ==
    LET error == suggested.error
        r == suggested.result
    IN  /\ FileFreeMapping
        /\ error.type = "template-literal-escape-error"
           => IF error.file # NoFile /\ InFileSet(suggested.files, error.file)
              THEN Unapproved(r) /\ r.action = "fix-syntax"
              ELSE r = NoSuggestion
        /\ error.type = "esm-cjs-conflict"
           => IF InFileSet(suggested.files, IF error.file # NoFile THEN error.file ELSE PostcssConfig)
              THEN Unapproved(r) /\ r.action = "fix-syntax"
              ELSE r = NoSuggestion

\* a template-literal-escape-error naming a file of the set got its suggestion
C31_Witness ==
    /\ suggested.error.type = "template-literal-escape-error"
    /\ suggested.error.file = AppTsx
    /\ suggested.files = ProjectFiles
    /\ Unapproved(suggested.result)
    /\ suggested.result.file = AppTsx

(***************************************************************************)
(* Responses with tags opened inside open tags, streamed in chunks         *)
(***************************************************************************)
\* an artifact opened inside an artifact and an action opened inside an action;
\* an artifact with two actions one after the other; one after a capital dotted I
NestInputs ==
    {<<"<", "o", "r", "b", "i", "t", "A", "r", "t", "i", "f", "a", "c", "t", " ", "i", "d", "=", "\"", "a", "\"", ">", "<", "o", "r", "b", "i", "t", "A", "r", "t", "i", "f", "a", "c", "t", " ", "i", "d", "=", "\"", "b", "\"", ">", "<", "o", "r", "b", "i", "t", "A", "c", "t", "i", "o", "n", " ", "t", "y", "p", "e", "=", "\"", "s", "h", "e", "l", "l", "\"", ">", "l", "<", "o", "r", "b", "i", "t", "A", "c", "t", "i", "o", "n", " ", "p", "a", "t", "h", "=", "\"", "p", "\"", ">", "x", "<", "/", "o", "r", "b", "i", "t", "A", "c", "t", "i", "o", "n", ">", "y", "<", "/", "o", "r", "b", "i", "t", "A", "c", "t", "i", "o", "n", ">", "<", "/", "o", "r", "b", "i", "t", "A", "r", "t", "i", "f", "a", "c", "t", ">", "z", "<", "/", "o", "r", "b", "i", "t", "A", "r", "t", "i", "f", "a", "c", "t", ">", "w">>,
     <<"t", "<", "o", "r", "b", "i", "t", "A", "r", "t", "i", "f", "a", "c", "t", ">", "<", "o", "r", "b", "i", "t", "A", "c", "t", "i", "o", "n", " ", "p", "a", "t", "h", "=", "\"", "p", "\"", ">", "x", "<", "/", "o", "r", "b", "i", "t", "A", "c", "t", "i", "o", "n", ">", "<", "o", "r", "b", "i", "t", "A", "c", "t", "i", "o", "n", " ", "t", "y", "p", "e", "=", "\"", "s", "h", "e", "l", "l", "\"", ">", "l", "s", "<", "/", "o", "r", "b", "i", "t", "A", "c", "t", "i", "o", "n", ">", "<", "/", "o", "r", "b", "i", "t", "A", "r", "t", "i", "f", "a", "c", "t", ">", "u", "<">>,
     <<"U+0130", "<", "o", "r", "b", "i", "t", "A", "r", "t", "i", "f", "a", "c", "t", " ", "i", "d", "=", "\"", "a", "\"", ">", "<", "o", "r", "b", "i", "t", "A", "c", "t", "i", "o", "n", " ", "t", "y", "p", "e", "=", "\"", "s", "h", "e", "l", "l", "\"", ">", "l", "s", "<", "/", "o", "r", "b", "i", "t", "A", "c", "t", "i", "o", "n", ">", "b", "<", "/", "o", "r", "b", "i", "t", "A", "r", "t", "i", "f", "a", "c", "t", ">", "c">>}

\* chunk lengths the responses arrive in
NestChunks == {1, 9, 50}

NestInit ==
    /\ ExecInit
    /\ states = [id \in {} |-> FreshState]
    /\ source \in [StreamIds -> NestInputs]
    /\ pending = source
    /\ emitted = NoEmission
    /\ discarded = {}
    /\ errorText = NoError
    /\ errorType = "none"
    /\ suggested = NotSuggested
    /\ ClientIdle

NestNext ==
    \E id \in StreamIds, c \in NestChunks, now \in Times :
        Feed(id, IF c < Len(pending[id]) THEN c ELSE Len(pending[id]), now)

NestSpec == NestInit /\ [][NestNext]_vars

\* how much of the response parse has gone through: what was fed less what it retains
ParsedUpTo(id) == Len(source[id]) - Len(pending[id]) - Len(states[id].buffer)

\* where the open tags starting with tagOpen and closed before position upTo begin
TagsBefore(s, tagOpen, upTo) ==
    {i \in 0..(Len(s) - Len(tagOpen)) : /\ \A j \in 1..Len(tagOpen) : LowerChar(s[i + j]) = <<tagOpen[j]>>
                                        /\ IndexOf(s, <<">">>, i) # -1
                                        /\ IndexOf(s, <<">">>, i) < upTo}

\* the open tag beginning at position i
TagAt(s, i) == Slice(s, i, IndexOf(s, <<">">>, i) + 1)

\* the callbacks the step has added for the stream
NewEvents(id) == SubSeq(emitted'[id].events, Len(emitted[id].events) + 1, Len(emitted'[id].events))

\* some callback of the sequence is of the kind
HasKind(events, kind) == \E k \in 1..Len(events) : events[k].kind = kind

\* C32 as stated: an artifact-open tag arriving while an artifact is open replaces the
\* current artifact, an action-open tag arriving while an action is open replaces the
\* current action: the current one is always that of the latest open tag gone through.
C32_NestedOpenReplaces ==
    \A id \in DOMAIN states :
        LET st == states[id]
            artifacts == TagsBefore(source[id], ARTIFACT_TAG_OPEN, ParsedUpTo(id))
            opened == TagsBefore(source[id], ACTION_TAG_OPEN, ParsedUpTo(id))
        IN  /\ st.insideArtifact /\ artifacts # {}
               => st.currentArtifact.id
                  = OrElse(ExtractAttribute(TagAt(source[id], MaxOf(artifacts)), <<"i", "d">>),
                           st.currentArtifact.id)
            /\ st.insideAction /\ opened # {}
               => st.currentAction.path
                  = ExtractAttribute(TagAt(source[id], MaxOf(opened)), <<"p", "a", "t", "h">>)

\* C32 amended: an open tag arriving inside an open tag of its kind replaces nothing;
\* while an artifact is open and until its close tag, parse opens no artifact and the
\* current artifact stays; while an action is open and until its close tag, parse
\* opens no action and the current action keeps its type and path.
C32_NestedOpenIgnored ==
    [][\A id \in DOMAIN states :
          LET st == states[id]
              after == states'[id]
          IN  /\ st.insideArtifact /\ ~HasKind(NewEvents(id), "artifact-close")
                 => /\ ~HasKind(NewEvents(id), "artifact-open")
                    /\ after.insideArtifact
                    /\ after.currentArtifact = st.currentArtifact
              /\ st.insideAction /\ ~HasKind(NewEvents(id), "action-complete")
                 => /\ ~HasKind(NewEvents(id), "action-open")
                    /\ after.insideAction
                    /\ after.currentAction.type = st.currentAction.type
                    /\ after.currentAction.path = st.currentAction.path]_vars

\* the response with the nested opens has been gone through past both of them: the
\* first artifact is still the current one and the action closed is the first one opened
C32_Witness ==
    \E id \in DOMAIN states :
        /\ states[id].insideArtifact
        /\ states[id].currentArtifact.id = <<"a">>
        /\ TagsBefore(source[id], ARTIFACT_TAG_OPEN, ParsedUpTo(id)) = {0, 22}
        /\ \E k \in 1..Len(emitted[id].events) :
              /\ emitted[id].events[k].kind = "action-complete"
              /\ emitted[id].events[k].artifactId = <<"a">>
              /\ emitted[id].events[k].path = Undefined
              /\ Includes(emitted[id].events[k].content, <<"p", "a", "t", "h">>)
\* artifacts opened less artifacts closed among the first n callbacks
RECURSIVE Depth(_, _)
Depth(events, n) ==
    IF n = 0 THEN 0
    ELSE Depth(events, n - 1)
         + (IF events[n].kind = "artifact-open" THEN 1
            ELSE IF events[n].kind = "artifact-close" THEN -1 ELSE 0)

\* C33: after every parse call insideAction implies insideArtifact and currentArtifact
\* is set exactly when insideArtifact holds; the notifications of a stream are well
\* nested: an artifact is opened only when none is open and closed only when one is,
\* action-open and action-complete occur inside an open artifact, and every
\* action-complete comes right after the action-open of the same action.
C33_WellNested ==
    \A id \in StreamIds :
        LET ev == emitted[id].events
        IN  /\ id \in DOMAIN states
               => /\ states[id].insideAction => states[id].insideArtifact
                  /\ states[id].insideArtifact <=> states[id].currentArtifact # NoArtifact
                  /\ states[id].insideArtifact <=> Depth(ev, Len(ev)) = 1
            /\ \A k \in 1..Len(ev) :
                  /\ ev[k].kind = "artifact-open" => Depth(ev, k - 1) = 0
                  /\ ev[k].kind \in {"artifact-close", "action-open", "action-complete"}
                     => Depth(ev, k - 1) = 1
                  /\ ev[k].kind = "action-complete"
                     => /\ k > 1
                        /\ ev[k - 1].kind = "action-open"
                        /\ ev[k - 1].actionId = ev[k].actionId
                        /\ ev[k - 1].artifactId = ev[k].artifactId

\* the response with the nested opens has been parsed to its end: its artifact was
\* opened and closed around an action opened and completed
C33_Witness ==
    \E id \in StreamIds :
        /\ pending[id] = <<>>
        /\ TagsBefore(source[id], ARTIFACT_TAG_OPEN, Len(source[id])) = {0, 22}
        /\ ~states[id].insideArtifact
        /\ HasKind(emitted[id].events, "action-complete")
        /\ HasKind(emitted[id].events, "artifact-close")

\* C34: nothing is emitted twice by the parser; over the parse calls of a stream each
\* position of the response goes into at most one free-text fragment or one action's
\* content, and text retained at the end of one call is emitted at most once later:
\* the spans sliced out of the response are pairwise disjoint.
C34_NothingEmittedTwice ==
    \A id \in StreamIds :
        LET spans == emitted[id].spans
        IN  \A j, k \in 1..Len(spans) :
                j < k => spans[j][2] <= spans[k][1] \/ spans[k][2] <= spans[j][1]

\* text retained at the end of one call was emitted by a later call, and the response
\* has been parsed to its end
C34_Witness ==
    \E id \in StreamIds :
        /\ emitted[id].carried
        /\ pending[id] = <<>>
        /\ Len(emitted[id].spans) > 1

\* the Action Records in status running
RunningRecords == {id \in DOMAIN actions : actions[id].status = "running"}

\* C35: each accepted queueAction call creates exactly one Action Record, pending at
\* enqueue time, and executing the action adds no further record: until cleanup clears
\* the table it holds one record per accepted call, a call still queued has its record
\* pending (or aborted), and at most one record is running.
C35_OneRecordPerCall ==
    /\ ~isCleanedUp => Cardinality(DOMAIN actions) = Len(tasks)
    /\ ~isCleanedUp => \A k \in 1..Len(tasks) :
                          tasks[k].pc = "queued" => actions[tasks[k].id].status = "pending"
    /\ Cardinality(RunningRecords) <= 1

(***************************************************************************)
(* The executor with its pending work eventually done                      *)
(***************************************************************************)
\* every sandbox call eventually returns, every process that is awaited eventually
\* exits or times out, and a settled promise eventually runs its continuation
LiveSpec == Init /\ [][Next]_vars /\ WF_vars(QueueStep)

\* the record of the k-th accepted action is in a final status
Reached(k) ==
    /\ k <= Len(tasks)
    /\ tasks[k].id \in DOMAIN actions
    /\ actions[tasks[k].id].status \in Terminal

\* C36 as stated: every action accepted by queueAction eventually reaches complete,
\* failed or aborted, whatever happens to the actions before it.
C36_EveryActionSettles ==
    \A k \in 1..MaxActions : (Len(tasks) >= k) ~> Reached(k)

\* C36 amended: every action accepted by queueAction eventually reaches complete,
\* failed or aborted, or cleanup removes its record before it does; no failure,
\* abort or timeout of an action leaves a later one pending forever.
C36_EveryActionSettlesOrCleared ==
    \A k \in 1..MaxActions : (Len(tasks) >= k) ~> (Reached(k) \/ isCleanedUp)

\* an action has failed and the action queued behind it has reached a final status
C36_Witness ==
    /\ Len(tasks) = 2
    /\ ~isCleanedUp
    /\ actions[tasks[1].id].status = "failed"
    /\ Reached(2)

(***************************************************************************)
(* runStreamingPipeline: the parser's completed actions queued on the      *)
(* ActionRunner while the response is still arriving                       *)
(***************************************************************************)
\* responses of the model: a file, an install and the dev server; two dev-server commands
PipelineInputs ==
    {<<"<", "o", "r", "b", "i", "t", "A", "r", "t", "i", "f", "a", "c", "t", " ", "i", "d", "=", "\"", "a", "\"", ">", "<", "o", "r", "b", "i", "t", "A", "c", "t", "i", "o", "n", " ", "t", "y", "p", "e", "=", "\"", "f", "i", "l", "e", "\"", " ", "p", "a", "t", "h", "=", "\"", "s", "r", "c", "/", "A", "p", "p", ".", "t", "s", "x", "\"", ">", "x", "<", "/", "o", "r", "b", "i", "t", "A", "c", "t", "i", "o", "n", ">", "<", "o", "r", "b", "i", "t", "A", "c", "t", "i", "o", "n", " ", "t", "y", "p", "e", "=", "\"", "s", "h", "e", "l", "l", "\"", ">", "n", "p", "m", " ", "i", "n", "s", "t", "a", "l", "l", "<", "/", "o", "r", "b", "i", "t", "A", "c", "t", "i", "o", "n", ">", "<", "o", "r", "b", "i", "t", "A", "c", "t", "i", "o", "n", " ", "t", "y", "p", "e", "=", "\"", "s", "h", "e", "l", "l", "\"", ">", "n", "p", "m", " ", "r", "u", "n", " ", "d", "e", "v", "<", "/", "o", "r", "b", "i", "t", "A", "c", "t", "i", "o", "n", ">", "<", "/", "o", "r", "b", "i", "t", "A", "r", "t", "i", "f", "a", "c", "t", ">">>,
     <<"<", "o", "r", "b", "i", "t", "A", "r", "t", "i", "f", "a", "c", "t", " ", "i", "d", "=", "\"", "a", "\"", ">", "<", "o", "r", "b", "i", "t", "A", "c", "t", "i", "o", "n", " ", "t", "y", "p", "e", "=", "\"", "s", "h", "e", "l", "l", "\"", ">", "n", "p", "m", " ", "r", "u", "n", " ", "d", "e", "v", "<", "/", "o", "r", "b", "i", "t", "A", "c", "t", "i", "o", "n", ">", "a", "n", "d", "<", "o", "r", "b", "i", "t", "A", "c", "t", "i", "o", "n", " ", "t", "y", "p", "e", "=", "\"", "s", "h", "e", "l", "l", "\"", ">", "n", "p", "m", " ", "s", "t", "a", "r", "t", "<", "/", "o", "r", "b", "i", "t", "A", "c", "t", "i", "o", "n", ">", "<", "/", "o", "r", "b", "i", "t", "A", "r", "t", "i", "f", "a", "c", "t", ">">>}

\* lengths of the fragments handed to parser.parse
PipelineChunks == {25, 60}

IsComplete(e) == e.kind = "action-complete"

\* the completed actions of a parse call taken last first
CompletedActionsLastFirst(events) ==
    IF Len(SelectSeq(events, IsComplete)) = 2
    THEN <<SelectSeq(events, IsComplete)[2], SelectSeq(events, IsComplete)[1]>>
    ELSE SelectSeq(events, IsComplete)

\* the onActionComplete callbacks of a parse call, in the order they are made
CompletedActions(events) == SelectSeq(events, IsComplete)

\* the ParsedAction of a callback as queueAction reads it
Queued(e) ==
    [type |-> IF e.type = FileType THEN "file" ELSE "shell",
     path |-> IF e.path = Undefined THEN NoPath ELSE e.path,
     content |-> e.content]

\* parser.parse(aiMessageId, content) with onActionComplete calling runner.queueAction
\* for every action completed by the call, in the order they complete
PipelineFeed(id, n, now) ==
    /\ n \in 1..Len(pending[id])
    /\ LET state == IF id \in DOMAIN states THEN states[id] ELSE FreshState
           r == Parse(state, SubSeq(pending[id], 1, n), now)
           completed == CompletedActions(r.events)
           ids == (actionIdCounter + 1)..(actionIdCounter + Len(completed))
       IN  /\ states' = [x \in DOMAIN states \cup {id} |-> IF x = id THEN r.state ELSE states[x]]
           /\ emitted' = [emitted EXCEPT ![id].events = @ \o r.events,
                                         ![id].output = @ \o r.output,
                                         ![id].stream = @ \o r.stream,
                                         ![id].spans = Joined(@, Shifted(r.spans, Consumed(id) - Len(state.buffer))),
                                         ![id].carried = @ \/ \E k \in 1..Len(r.spans) :
                                                                  r.spans[k][1] < Len(state.buffer)]
           /\ IF Rejecting
              THEN /\ warnings' = [warnings EXCEPT !["cleaned-up"] = @ + Len(completed)]
                   /\ UNCHANGED <<actions, actionIdCounter, tasks, abortControllers>>
              ELSE /\ actionIdCounter' = actionIdCounter + Len(completed)
                   /\ actions' = [i \in DOMAIN actions \cup ids |->
                                     IF i \in ids
                                     THEN [id |-> i, type |-> Queued(completed[i - actionIdCounter]).type,
                                           status |-> "pending",
                                           description |-> Description(Queued(completed[i - actionIdCounter])),
                                           path |-> Queued(completed[i - actionIdCounter]).path,
                                           error |-> NoError]
                                     ELSE actions[i]]
                   /\ abortControllers' = abortControllers \cup ids
                   /\ tasks' = tasks \o [k \in 1..Len(completed) |->
                                            [id |-> actionIdCounter + k, action |-> Queued(completed[k]),
                                             pc |-> "queued", proc |-> NoProc, inner |-> 0,
                                             error |-> NoError]]
                   /\ UNCHANGED warnings
    /\ pending' = [pending EXCEPT ![id] = SubSeq(@, n + 1, Len(@))]
    /\ discarded' = discarded \ {id}
    /\ UNCHANGED <<source, signalAborted, isCleanedUp, hasFailedCriticalAction, devServerProcess,
                   ops, nodeModules, startLog, bootVars, detectorVars, clientVars>>

PipelineInit ==
    /\ ExecInit
    /\ states = [id \in {} |-> FreshState]
    /\ source \in [StreamIds -> PipelineInputs]
    /\ pending = source
    /\ emitted = NoEmission
    /\ discarded = {}
    /\ errorText = NoError
    /\ errorType = "none"
    /\ suggested = NotSuggested
    /\ ClientIdle

\* the response arrives in fragments while the queue runs; the user may stop everything
PipelineNext ==
    \/ \E id \in StreamIds, c \in PipelineChunks, now \in Times :
            PipelineFeed(id, IF c < Len(pending[id]) THEN c ELSE Len(pending[id]), now)
    \/ QueueStep
    \/ AbortAll
    \/ Cleanup

PipelineSpec == PipelineInit /\ [][PipelineNext]_vars

RECURSIVE CompletedIn(_, _)
\* the actions a response completes, read front to back in fragments of 40 characters
CompletedIn(state, rest) ==
    IF rest = <<>> THEN <<>>
    ELSE IF Len(rest) <= 40
    THEN SelectSeq(Parse(state, rest, "1").events, IsComplete)
    ELSE SelectSeq(Parse(state, SubSeq(rest, 1, 40), "1").events, IsComplete)
             \o CompletedIn(Parse(state, SubSeq(rest, 1, 40), "1").state,
                            SubSeq(rest, 41, Len(rest)))

\* the actions of each response in the order of their close tags
PipelineWhole == [input \in PipelineInputs |-> CompletedIn(FreshState, input)]

\* task k has made a call to the sandbox
Executed(k) == \E h \in DOMAIN ops : ops[h].by = tasks[k].id

\* C37: for any chunking of a stream the file writes and commands are executed against
\* the sandbox in the order of their action close tags: the queue holds the actions in
\* the order in which the whole response completes them, and an action makes its calls
\* to the sandbox only when every action before it has settled.
C37_StreamOrder ==
    \A id \in StreamIds :
        /\ Len(tasks) <= Len(PipelineWhole[source[id]])
        /\ \A k \in 1..Len(tasks) : tasks[k].action = Queued(PipelineWhole[source[id]][k])
        /\ \A j, k \in 1..Len(tasks) : j < k /\ Executed(k) => tasks[j].pc = "done"

\* the file, the install and the dev server of one response have all been executed
C37_Witness ==
    /\ Len(tasks) = 3
    /\ \A k \in 1..3 : Executed(k) /\ tasks[k].pc = "done"
    /\ tasks[1].action.type = "file"
    /\ ~isCleanedUp

(***************************************************************************)
(* runStreamingPipeline: the read loop over the server-sent events of the  *)
(* response                                                                *)
(***************************************************************************)
DataPrefix == <<"d", "a", "t", "a", ":", " ">>

DoneMarker == <<"[", "D", "O", "N", "E", "]">>

\* the text of a chunk object up to its content, after it, and a chunk without content
ContentOpen == <<"{", "\"", "c", "h", "o", "i", "c", "e", "s", "\"", ":", "[", "{", "\"", "d", "e", "l", "t", "a", "\"", ":", "{", "\"", "c", "o", "n", "t", "e", "n", "t", "\"", ":", "\"">>

ContentClose == <<"\"", "}", "}", "]", "}">>

EmptyDelta == <<"{", "\"", "c", "h", "o", "i", "c", "e", "s", "\"", ":", "[", "{", "\"", "d", "e", "l", "t", "a", "\"", ":", "{", "}", "}", "]", "}">>

RECURSIVE JsonStringOk(_)
\* the characters between the quotes of a JSON string: no bare quote or control
\* character, a backslash only before n, a quote or a backslash
JsonStringOk(s) ==
    IF s = <<>> THEN TRUE
    ELSE IF Head(s) = "\\"
    THEN Len(s) >= 2 /\ s[2] \in {"n", "\"", "\\"} /\ JsonStringOk(SubSeq(s, 3, Len(s)))
    ELSE Head(s) \notin {"\"", "\n", "\r", "\t"} /\ JsonStringOk(Tail(s))

RECURSIVE JsonText(_)
\* the string a JSON string stands for
JsonText(s) ==
    IF s = <<>> THEN <<>>
    ELSE IF Head(s) = "\\"
    THEN <<IF s[2] = "n" THEN "\n" ELSE s[2]>> \o JsonText(SubSeq(s, 3, Len(s)))
    ELSE <<Head(s)>> \o JsonText(Tail(s))

\* JSON.parse(data) and parsed.choices?.[0]?.delta?.content || '', for the chunk
\* objects of the response; JSON.parse skips white space around the value and throws
\* on any other text
DeltaContent(data) ==
    LET t == Trim(data)
        inner == Slice(t, Len(ContentOpen), Len(t) - Len(ContentClose))
    IN  IF t = EmptyDelta THEN [threw |-> FALSE, content |-> <<>>]
        ELSE IF /\ Len(t) >= Len(ContentOpen) + Len(ContentClose)
                /\ StartsWith(t, ContentOpen)
                /\ EndsWith(t, ContentClose)
                /\ JsonStringOk(inner)
        THEN [threw |-> FALSE, content |-> JsonText(inner)]
        ELSE [threw |-> TRUE, content |-> <<>>]

\* try { ...; if (content) parser.parse(aiMessageId, content) } catch { }: the texts
\* handed to parser.parse, none or one
Handed(data) ==
    IF DeltaContent(data).threw \/ DeltaContent(data).content = <<>> THEN <<>>
    ELSE <<DeltaContent(data).content>>

\* the body of the for loop over the complete lines
LineFragments(line) ==
    LET trimmedLine == Trim(line)
    IN  IF trimmedLine = <<>> \/ ~StartsWith(trimmedLine, DataPrefix) THEN <<>>
        ELSE IF SliceFrom(trimmedLine, 6) = DoneMarker THEN <<>>
        ELSE Handed(SliceFrom(trimmedLine, 6))

\* the final flush after the loop
FinalFlush(buffer) ==
    IF StartsWith(buffer, DataPrefix) THEN Handed(SliceFrom(buffer, 6)) ELSE <<>>

RECURSIVE LinesFragments(_)
\* the for loop: the texts handed to parser.parse for the lines, in order
LinesFragments(lines) ==
    IF lines = <<>> THEN <<>> ELSE LineFragments(Head(lines)) \o LinesFragments(Tail(lines))

\* a read loop that keeps nothing of an incomplete line
CarryNothing(lines) == <<>>

\* lineBuffer = lines.pop() || ''
Carry(lines) == lines[Len(lines)]

\* responses: chunks with CR LF and LF line ends, a chunk without content, [DONE];
\* indented data lines, the last one unterminated; an unterminated last data line
SseBodies ==
    {<<"d", "a", "t", "a", ":", " ", "{", "\"", "c", "h", "o", "i", "c", "e", "s", "\"", ":", "[", "{", "\"", "d", "e", "l", "t", "a", "\"", ":", "{", "\"", "c", "o", "n", "t", "e", "n", "t", "\"", ":", "\"", "<", "a", "\"", "}", "}", "]", "}", "\r", "\n", "\r", "\n", "d", "a", "t", "a", ":", " ", "{", "\"", "c", "h", "o", "i", "c", "e", "s", "\"", ":", "[", "{", "\"", "d", "e", "l", "t", "a", "\"", ":", "{", "}", "}", "]", "}", "\n", "\n", "d", "a", "t", "a", ":", " ", "{", "\"", "c", "h", "o", "i", "c", "e", "s", "\"", ":", "[", "{", "\"", "d", "e", "l", "t", "a", "\"", ":", "{", "\"", "c", "o", "n", "t", "e", "n", "t", "\"", ":", "\"", "b", "\\", "n", "\"", "}", "}", "]", "}", "\n", "\n", "d", "a", "t", "a", ":", " ", "[", "D", "O", "N", "E", "]", "\n", "\n">>,
     <<" ", "d", "a", "t", "a", ":", " ", "{", "\"", "c", "h", "o", "i", "c", "e", "s", "\"", ":", "[", "{", "\"", "d", "e", "l", "t", "a", "\"", ":", "{", "\"", "c", "o", "n", "t", "e", "n", "t", "\"", ":", "\"", "x", "\"", "}", "}", "]", "}", "\n", " ", "d", "a", "t", "a", ":", " ", "{", "\"", "c", "h", "o", "i", "c", "e", "s", "\"", ":", "[", "{", "\"", "d", "e", "l", "t", "a", "\"", ":", "{", "\"", "c", "o", "n", "t", "e", "n", "t", "\"", ":", "\"", "y", "\"", "}", "}", "]", "}">>,
     <<"d", "a", "t", "a", ":", " ", "{", "\"", "c", "h", "o", "i", "c", "e", "s", "\"", ":", "[", "{", "\"", "d", "e", "l", "t", "a", "\"", ":", "{", "\"", "c", "o", "n", "t", "e", "n", "t", "\"", ":", "\"", "x", "\"", "}", "}", "]", "}", "\n", "\n", "d", "a", "t", "a", ":", " ", "{", "\"", "c", "h", "o", "i", "c", "e", "s", "\"", ":", "[", "{", "\"", "d", "e", "l", "t", "a", "\"", ":", "{", "\"", "c", "o", "n", "t", "e", "n", "t", "\"", ":", "\"", "y", "\"", "}", "}", "]", "}">>}

\* lengths of the texts reader.read() returns
SseReads == {1, 7, 40}

SseInit ==
    /\ ExecInit
    /\ states = [id \in {} |-> FreshState]
    /\ source = [id \in StreamIds |-> <<>>]
    /\ pending = source
    /\ emitted = NoEmission
    /\ discarded = {}
    /\ errorText = NoError
    /\ errorType = "none"
    /\ suggested = NotSuggested
    /\ body \in SseBodies
    /\ unread = body
    /\ lineBuffer = <<>>
    /\ fragments = <<>>
    /\ reading = "reading"
    /\ manifest = NoManifest
    /\ clock = FirstInstant
    /\ lastRequestTime = 0
    /\ wake = [c \in Callers |-> 0]
    /\ issued = <<>>

\* reader.read() returned n more characters: one pass of the while loop
Read(n) ==
    /\ reading = "reading"
    /\ n \in 1..Len(unread)
    /\ LET lines == SplitOn(lineBuffer \o SubSeq(unread, 1, n), {"\n"}, FALSE)
       IN  /\ lineBuffer' = Carry(lines)
           /\ fragments' = fragments \o LinesFragments(SubSeq(lines, 1, Len(lines) - 1))
    /\ unread' = SubSeq(unread, n + 1, Len(unread))
    /\ UNCHANGED <<body, reading, manifest, limiterVars, execVars, bootVars, parserVars, detectorVars>>

\* reader.read() returned done: the loop ends and the final flush runs
ReadDone ==
    /\ reading = "reading"
    /\ unread = <<>>
    /\ fragments' = fragments \o FinalFlush(lineBuffer)
    /\ reading' = "done"
    /\ UNCHANGED <<body, unread, lineBuffer, manifest, limiterVars, execVars, bootVars, parserVars, detectorVars>>

SseNext ==
    \/ \E c \in SseReads : Read(IF c < Len(unread) THEN c ELSE Len(unread))
    \/ ReadDone

SseSpec == SseInit /\ [][SseNext]_vars

\* the lines of a response, the last one being what follows the last line feed
LinesOf(b) == SplitOn(b, {"\n"}, FALSE)

\* the contents of the "data: " lines of each response in order, a line being a data
\* line when it begins with "data: "
ContentsOfDataLines ==
    [b \in SseBodies |->
        LinesFragments([k \in 1..Len(LinesOf(b)) |->
                           IF StartsWith(LinesOf(b)[k], DataPrefix) THEN LinesOf(b)[k] ELSE <<>>])]

\* the same, a line being a data line when it begins with "data: " after the white
\* space around it is dropped
ContentsOfTrimmedDataLines == [b \in SseBodies |-> LinesFragments(LinesOf(b))]

\* the same, the white space dropped around the lines ended by a line feed and not
\* around what follows the last line feed
ContentsOfDeliveredLines ==
    [b \in SseBodies |->
        LinesFragments(SubSeq(LinesOf(b), 1, Len(LinesOf(b)) - 1))
            \o FinalFlush(LinesOf(b)[Len(LinesOf(b))])]

\* C38 as stated: however the response is split into reads, the texts handed to
\* parser.parse, concatenated, are the contents of all "data: <json>" lines of the
\* response in order, whichever of the two ways a data line is told.
C38_AllDataLines ==
    reading = "done"
    => \/ Join(fragments, <<>>) = Join(ContentsOfDataLines[body], <<>>)
       \/ Join(fragments, <<>>) = Join(ContentsOfTrimmedDataLines[body], <<>>)

\* C38 amended: however the response is split into reads, the texts handed to
\* parser.parse are, one by one and in order, the contents of the lines ended by a line
\* feed that begin with "data: " once the white space around them is dropped, and of
\* what follows the last line feed when it begins with "data: " as it stands; while
\* the response is being read they are the contents of the lines read so far.
C38_DeliveredLines ==
    /\ reading = "done" => fragments = ContentsOfDeliveredLines[body]
    /\ reading = "reading"
       => /\ Len(fragments) <= Len(ContentsOfDeliveredLines[body])
          /\ fragments = SubSeq(ContentsOfDeliveredLines[body], 1, Len(fragments))

\* the response with CR LF line ends, a chunk without content and [DONE] has been read
\* to its end, and both of its contents were handed over
C38_Witness ==
    /\ reading = "done"
    /\ Len(fragments) = 2
    /\ fragments[1] = <<"<", "a">>
    /\ fragments[2] = <<"b", "\n">>

(***************************************************************************)
(* writeFile's Dependency Guard on package.json                            *)
(*                                                                         *)
(* A content is a JSON text taken as its layout and the value it parses    *)
(* to.  A value is invalid (JSON.parse throws), null, a number, an array,  *)
(* or an object with its "dependencies" member: absent, null, a string, an *)
(* array, or an object given as its <<name, version>> entries in order; an *)
(* empty version is the empty string.                                      *)
(***************************************************************************)
\* const mandatory = { ... }, in the order of its entries
Mandatory ==
    <<<<"lucide-react", "^0.344.0">>, <<"zustand", "^4.5.2">>, <<"framer-motion", "^11.0.8">>,
      <<"clsx", "^2.1.0">>, <<"tailwind-merge", "^2.2.1">>,
      <<"class-variance-authority", "^0.7.0">>, <<"uuid", "^9.0.1">>, <<"date-fns", "^3.3.1">>>>

\* where the entries hold the name, or 0
EntryOf(entries, name) ==
    IF \E i \in 1..Len(entries) : entries[i][1] = name
    THEN CHOOSE i \in 1..Len(entries) : entries[i][1] = name
    ELSE 0

\* a guard that takes every library for present
LacksNever(entries, name) == FALSE

\* !pkg.dependencies[name]: no entry, or an entry with a falsy version
Lacks(entries, name) == EntryOf(entries, name) = 0 \/ entries[EntryOf(entries, name)][2] = ""

RECURSIVE Inject(_, _)
\* the for loop over Object.entries(mandatory) from its k-th entry on: an entry that
\* exists keeps its place and takes the version, a new one goes to the end
Inject(entries, k) ==
    IF k > Len(Mandatory) THEN entries
    ELSE IF ~Lacks(entries, Mandatory[k][1]) THEN Inject(entries, k + 1)
    ELSE IF EntryOf(entries, Mandatory[k][1]) = 0 THEN Inject(Append(entries, Mandatory[k]), k + 1)
    ELSE Inject([entries EXCEPT ![EntryOf(entries, Mandatory[k][1])][2] = Mandatory[k][2]], k + 1)

\* JSON.stringify(pkg, null, 2)
Stringify(value) == [layout |-> "pretty", value |-> value]

\* the Dependency Guard of writeFile: the content handed to fs.writeFile for package.json
DependencyGuard(content) ==
    LET pkg == content.value
    IN  IF pkg.kind \in {"invalid", "null", "number"}
        THEN content       \* JSON.parse, pkg.dependencies or the assignment to it throws
        ELSE IF pkg.kind = "array"
        THEN Stringify(pkg)  \* the libraries are set on properties JSON.stringify leaves out
        ELSE IF pkg.dependencies.kind \in {"absent", "null"}
        THEN Stringify([pkg EXCEPT !.dependencies = [kind |-> "object", entries |-> Inject(<<>>, 1)]])
        ELSE IF pkg.dependencies.kind = "string"
        THEN content       \* setting a property of a string throws in strict code
        ELSE IF pkg.dependencies.kind = "array"
        THEN Stringify(pkg)
        ELSE IF Inject(pkg.dependencies.entries, 1) = pkg.dependencies.entries
        THEN content       \* added is false
        ELSE Stringify([pkg EXCEPT !.dependencies.entries = Inject(@, 1)])

\* entries a package.json may list
GuardEntries ==
    {<<"react", "^18.2.0">>, <<"zustand", "^4.0.0">>, <<"zustand", "">>, <<"uuid", "^9.0.1">>,
     <<"clsx", "^2.1.0">>}

\* lists of up to MaxEntries of them, no name twice, and two lists with every library
MaxEntries == 2

GuardLists ==
    {es \in UNION {[1..n -> GuardEntries] : n \in 0..MaxEntries} :
        \A i, j \in 1..Len(es) : i # j => es[i][1] # es[j][1]}
        \cup {Mandatory, [Mandatory EXCEPT ![2][2] = "^4.0.0"] \o <<<<"react", "^18.2.0">>>>}

\* the values a package.json parses to
GuardValues ==
    {[kind |-> k] : k \in {"invalid", "null", "number", "array"}}
        \cup {[kind |-> "object", dependencies |-> [kind |-> k]] :
                 k \in {"absent", "null", "string", "array"}}
        \cup {[kind |-> "object", dependencies |-> [kind |-> "object", entries |-> es]] :
                 es \in GuardLists}

\* the contents handed to writeFile for package.json
GuardContents == [layout : {"compact", "pretty", "tabs"}, value : GuardValues]

\* writeFile('package.json', content), and writeFile of what it wrote
GuardWrite(content) ==
    /\ manifest' = [content |-> content,
                    written |-> DependencyGuard(content),
                    rewritten |-> DependencyGuard(DependencyGuard(content))]
    /\ UNCHANGED <<execVars, bootVars, parserVars, detectorVars, body, unread, lineBuffer,
                   fragments, reading, limiterVars>>

GuardNext == \E content \in GuardContents : GuardWrite(content)

GuardSpec == Init /\ [][GuardNext]_vars

\* the content lists the library with the version
Lists(content, name, version) ==
    /\ content.value.kind = "object"
    /\ content.value.dependencies.kind = "object"
    /\ \E i \in 1..Len(content.value.dependencies.entries) :
          content.value.dependencies.entries[i] = <<name, version>>

\* the version the content gives for the library, "absent" if it lists none
Given(content, name) ==
    IF /\ content.value.kind = "object"
       /\ content.value.dependencies.kind = "object"
       /\ EntryOf(content.value.dependencies.entries, name) # 0
    THEN content.value.dependencies.entries[EntryOf(content.value.dependencies.entries, name)][2]
    ELSE "absent"

\* a content that does not parse is written unchanged, a content with no library
\* missing is written unchanged, and the guard changes nothing in its own output
GuardLeavesAlone ==
    /\ manifest.content.value.kind = "invalid" => manifest.written = manifest.content
    /\ (\A k \in 1..Len(Mandatory) : Given(manifest.content, Mandatory[k][1]) \notin {"absent", ""})
       => manifest.written = manifest.content
    /\ manifest.rewritten = manifest.written

Elapses == {500, 2000, MIN_DELAY_MS}

\* the clock stops here
LastInstant == FirstInstant + 4 * MIN_DELAY_MS

\* no more requests than this
MaxRequests == 4

\* callers that are past the reading of lastRequestTime and wait for their timer
Waiting == {c \in Callers : wake[c] # 0}

\* waitForRateLimit() up to its await: with MIN_DELAY_MS gone since lastRequestTime it
\* sets lastRequestTime and returns, and the request goes out; else it sets a timer
\* and leaves lastRequestTime as it is until the timer has fired
WaitForRateLimit(c) ==
    /\ wake[c] = 0
    /\ Len(issued) + Cardinality(Waiting) < MaxRequests
    /\ LET now == clock
           timeSinceLastRequest == now - lastRequestTime
       IN  IF timeSinceLastRequest < MIN_DELAY_MS
           THEN /\ wake' = [wake EXCEPT ![c] = now + (MIN_DELAY_MS - timeSinceLastRequest)]
                /\ UNCHANGED <<lastRequestTime, issued>>
           ELSE /\ lastRequestTime' = now
                /\ issued' = Append(issued, now)
                /\ UNCHANGED wake
    /\ UNCHANGED <<clock, execVars, bootVars, parserVars, detectorVars, body, unread,
                   lineBuffer, fragments, reading, manifest>>

\* the timer of a waiting caller fires: lastRequestTime = Date.now(), and the request
\* goes out
Wake(c) ==
    /\ wake[c] # 0
    /\ clock >= wake[c]
    /\ lastRequestTime' = clock
    /\ issued' = Append(issued, clock)
    /\ wake' = [wake EXCEPT ![c] = 0]
    /\ UNCHANGED <<clock, execVars, bootVars, parserVars, detectorVars, body, unread,
                   lineBuffer, fragments, reading, manifest>>

\* time passes, no further than the next timer that is due
Elapse(d) ==
    /\ clock + d <= LastInstant
    /\ \A c \in Waiting : clock + d <= wake[c]
    /\ clock' = clock + d
    /\ UNCHANGED <<lastRequestTime, wake, issued, execVars, bootVars, parserVars,
                   detectorVars, body, unread, lineBuffer, fragments, reading, manifest>>

LimiterNext ==
    \/ \E c \in Callers : WaitForRateLimit(c)
    \/ \E c \in Callers : Wake(c)
    \/ \E d \in Elapses : Elapse(d)

LimiterSpec == Init /\ [][LimiterNext]_vars

\* C40: any two requests that passed through waitForRateLimit went out at least
\* MIN_DELAY_MS apart, also when the waits of several callers overlap.
C40_RequestsSpaced ==
    \A i, j \in 1..Len(issued) : i < j => issued[j] - issued[i] >= MIN_DELAY_MS
====
